---- MODULE Spec2Model ----
(***************************************************************************)
(* Verification model of the asynchronous HTTP engine of esp32_mp_custom:  *)
(*   - the server, src/modules/http_server.py (HttpServer.handle)          *)
(*   - the client, src/firmware/modules/http_client.py (http_client)       *)
(* Each coroutine is cut at its suspension points (await); one action is   *)
(* the code that runs between two suspension points.                       *)
(***************************************************************************)
EXTENDS Integers, Sequences, FiniteSets, TLC

(***************************************************************************)
(* Bounds of the model                                                     *)
(***************************************************************************)
\* number of connections handed to HttpServer.handle in one run
NumConns == 3

\* no task (lock free)
NoTask == 0


(***************************************************************************)
(* State                                                                   *)
(***************************************************************************)
\* the server
VARIABLES
    connections,   \* HttpServer._connections: set of admitted conn_id
    lockHolder,    \* task owning HttpServer._lock (NoTask when free)
    lockQueue,     \* tasks suspended in _lock.acquire(), oldest first
    spc,           \* spc[c]: suspension point of handle(reader, writer) of c
    method,        \* request.method of c (empty until the request line is parsed)
    didRead,       \* a reader.readline()/read() call was made on c
    written,       \* status codes of the responses written on c, in order
    closed,        \* writer.aclose() ran on c
    sawFull,       \* the admission check of c found the set full
    app,           \* the application: routes, static files, hooks
    url,           \* request.url of c
    events,        \* what handle did for c, in order
    fault,         \* what the environment did to the dispatched request of c
    request        \* request.headers, request.json and the locals length, body of c

svars == <<connections, lockHolder, lockQueue, spc, method, didRead, written,
           closed, sawFull, app, url, events, fault, request>>

\* the client
VARIABLES
    retries,        \* argument retries
    fallback,       \* argument fallback_buffer_size
    resp,           \* the response the peer sends on every connection
    stream,         \* its bytes, Wire(resp)
    i,              \* loop variable of `for i in range(retries)`
    cpc,            \* suspension point of http_client / single_request
    attempts,       \* single_request() calls started
    sleeps,         \* durations (ms) of the asyncio.sleep_ms calls completed
    writer,         \* single_request's writer is set (open_connection returned)
    openTransports, \* transports opened and not yet closed
    pos,            \* bytes of stream the reader has delivered
    loc,            \* locals of single_request
    lastErr,        \* e of the last `except Exception as e`
    result          \* what http_client returned

cvars == <<retries, fallback, resp, stream, i, cpc, attempts, sleeps, writer,
           openTransports, pos, loc, lastErr, result>>

vars == <<svars, cvars>>

(***************************************************************************)
(*                     WIRE CODEC (bytes and text)                         *)
(* A byte is a one-character string; xFF is a byte that is not valid       *)
(* UTF-8, NUL the zero byte a fresh bytearray(n) holds.                    *)
(***************************************************************************)
CR == "\r"
LF == "\n"
SP == " "
xFF == "xFF"
NUL == "x00"
CRLF == <<CR, LF>>
CRLFCRLF == <<CR, LF, CR, LF>>

\* Value the integer parsers return where Python raises ValueError (no byte
\* of the model is a sign, so a parsed number is never negative)
Raise == -1

UpperLetters ==
    <<"A","B","C","D","E","F","G","H","I","J","K","L","M",
      "N","O","P","Q","R","S","T","U","V","W","X","Y","Z">>
LowerLetters ==
    <<"a","b","c","d","e","f","g","h","i","j","k","l","m",
      "n","o","p","q","r","s","t","u","v","w","x","y","z">>
Digits == <<"0","1","2","3","4","5","6","7","8","9">>
Whitespace == {SP, "\t", CR, LF}

IndexIn(c, s) ==
    IF \E j \in 1..Len(s) : s[j] = c
    THEN CHOOSE j \in 1..Len(s) : s[j] = c
    ELSE 0

\* bytes.find(sub) + 1: least 1-based index where sub starts in s, 0 if none
Find(s, sub) ==
    LET n == Len(sub)
        hits == {p \in 1..(Len(s) - n + 1) :
                     \A j \in 1..n : s[p + j - 1] = sub[j]}
    IN IF hits = {} THEN 0 ELSE CHOOSE p \in hits : \A q \in hits : p <= q

Contains(s, sub) == Find(s, sub) > 0

Slice(s, a, b) == IF a > b THEN <<>> ELSE SubSeq(s, a, b)

\* s[n:] in Python
Drop(s, n) == Slice(s, n + 1, Len(s))

\* s[:n] in Python
Take(s, n) == Slice(s, 1, IF n < Len(s) THEN n ELSE Len(s))

\* str.lower() on one character / on a string
LowerChNoop(c) == c

LowerCh(c) ==
    LET j == IndexIn(c, UpperLetters)
    IN IF j = 0 THEN c ELSE LowerLetters[j]

Lower(s) == [j \in 1..Len(s) |-> LowerCh(s[j])]

\* str.strip()
Strip(s) ==
    LET keep == {j \in 1..Len(s) : s[j] \notin Whitespace}
    IN IF keep = {} THEN <<>>
       ELSE Slice(s, CHOOSE a \in keep : \A b \in keep : a <= b,
                     CHOOSE a \in keep : \A b \in keep : a >= b)

\* str.split(sep) for a non-empty separator: the list of pieces
RECURSIVE SplitOn(_, _)
SplitOn(s, sep) ==
    LET p == Find(s, sep)
    IN IF p = 0 THEN <<s>>
       ELSE <<Slice(s, 1, p - 1)>> \o SplitOn(Drop(s, p + Len(sep) - 1), sep)

\* str.split(): pieces separated by runs of whitespace, no empty piece
RECURSIVE SplitWS(_)
SplitWS(s) ==
    LET t == Strip(s)
        ws == {j \in 1..Len(t) : t[j] \in Whitespace}
    IN IF t = <<>> THEN <<>>
       ELSE IF ws = {} THEN <<t>>
       ELSE LET p == CHOOSE a \in ws : \A b \in ws : a <= b
            IN <<Slice(t, 1, p - 1)>> \o SplitWS(Drop(t, p))

\* int(text): surrounding whitespace is dropped, then decimal digits only;
\* anything else raises ValueError
RECURSIVE DecValue(_)
DecValue(s) ==
    IF s = <<>> THEN 0
    ELSE 10 * DecValue(Slice(s, 1, Len(s) - 1)) + (IndexIn(s[Len(s)], Digits) - 1)

ParseInt(s) ==
    LET t == Strip(s)
    IN IF t # <<>> /\ \A j \in 1..Len(t) : IndexIn(t[j], Digits) > 0
       THEN DecValue(t) ELSE Raise

\* int(bytes(line), 16): surrounding whitespace is dropped as well
HexDigit(c) ==
    IF IndexIn(c, Digits) > 0 THEN IndexIn(c, Digits) - 1
    ELSE IF IndexIn(LowerCh(c), Take(LowerLetters, 6)) > 0
         THEN 9 + IndexIn(LowerCh(c), Take(LowerLetters, 6))
         ELSE -1

RECURSIVE HexValue(_)
HexValue(s) ==
    IF s = <<>> THEN 0
    ELSE 16 * HexValue(Slice(s, 1, Len(s) - 1)) + HexDigit(s[Len(s)])

ParseHex(s) ==
    LET t == Strip(s)
    IN IF t # <<>> /\ \A j \in 1..Len(t) : HexDigit(t[j]) >= 0
       THEN HexValue(t) ELSE Raise

\* bytes.decode(): UTF-8; a 7-bit byte is the character of the same code,
\* a byte that is not valid UTF-8 raises UnicodeError
Decodable(b) == \A j \in 1..Len(b) : b[j] # xFF

Decode(b) == [j \in 1..Len(b) |-> b[j]]

\* ---- shared by both sides: header names and lines, numbers as text ----
\* Program constants of http_client.py
READ_SIZE == 512
MAX_HEADER == 2048
HEADER_READ == 64
BACKOFF_MS == 1000
SYNTHETIC_STATUS == 500
MALFORMED_STATUS == 500

\* Header names as a server may spell them, and the keys the client looks up
TEName == <<"T","r","a","n","s","f","e","r","-","E","n","c","o","d","i","n","g">>
CLName == <<"C","o","n","t","e","n","t","-","L","e","n","g","t","h">>
TEKey == <<"t","r","a","n","s","f","e","r","-","e","n","c","o","d","i","n","g">>
CLKey == <<"c","o","n","t","e","n","t","-","l","e","n","g","t","h">>
ChunkedText == <<"c","h","u","n","k","e","d">>
StatusLine200 == <<"H","T","T","P","/","1",".","1"," ","2","0","0"," ","O","K">>

UpperCh(c) ==
    LET j == IndexIn(c, LowerLetters)
    IN IF j = 0 THEN c ELSE UpperLetters[j]

Styles == {"canon", "lower", "upper"}

Styled(name, style) ==
    CASE style = "lower" -> [j \in 1..Len(name) |-> LowerCh(name[j])]
      [] style = "upper" -> [j \in 1..Len(name) |-> UpperCh(name[j])]
      [] OTHER -> name

RECURSIVE DecText(_)
DecText(n) ==
    IF n < 10 THEN <<Digits[n + 1]>>
    ELSE DecText(n \div 10) \o <<Digits[(n % 10) + 1]>>

HeaderLine(name, value) == name \o <<":", SP>> \o value \o CRLF

RECURSIVE SeqsUpTo(_, _)
SeqsUpTo(S, n) ==
    IF n = 0 THEN {<<>>}
    ELSE SeqsUpTo(S, n - 1) \cup
         {Append(q, x) : q \in {t \in SeqsUpTo(S, n - 1) : Len(t) = n - 1}, x \in S}

Pad(n) == [j \in 1..n |-> "a"]

(***************************************************************************)
(*                              SERVER                                     *)
(***************************************************************************)
Conns == 1..NumConns

\* HttpServer(max_connections=...): the configured cap of the admission set
max_connections == 1

\* request methods the server tells apart
GET == <<"G","E","T">>
POST == <<"P","O","S","T">>
OPTIONS == <<"O","P","T","I","O","N","S">>
Methods == {GET, POST, OPTIONS}

\* Statuses the server puts on the wire
RouteStatus == 200
OptionsStatus == 204
NotFoundStatus == 404
ErrorStatus == 500
RejectStatus == 503

\* ---- what a connection's handling does, in order ----
\* An event: a hook or handler call, a header block or a body written, the
\* error print, the close of the transport, the release of the slot
Ev(kind) ==
    [kind |-> kind, code |-> 0, ctype |-> "", cache |-> "", cors |-> FALSE,
     text |-> <<>>, hook |-> 0, raised |-> FALSE]

\* a hook call with its arguments after the request: (status) or (status, msg)
HookEv(kind, code, text) == [Ev(kind) EXCEPT !.code = code, !.text = text]

\* the call of hook number j of a list (before, after, error) of the
\* application a; the first hook of a list named in a.raising raises
HookCall(a, kind, j, code, text) ==
    [HookEv(kind, code, text) EXCEPT !.hook = j,
                                     !.raised = (j = 1 /\ kind \in a.raising)]

\* a body written on the transport
BodyEv(text) == [Ev("body") EXCEPT !.text = text]

MaxAge == "Cache-Control: max-age=31536000"
NoCache == "Cache-Control: no-cache, no-store, must-revalidate"

\* send_headers(request, status_code, content_type, cache): the status line,
\* Content-Type, the caching directive and the three CORS headers
HeaderBlock(status_code, content_type, cache) ==
    [Ev("headers") EXCEPT !.code = status_code, !.ctype = content_type,
                          !.cache = IF cache THEN MaxAge ELSE NoCache,
                          !.cors = TRUE]

\* the literal written by the admission rejection: a status line and
\* Content-Type only, then the body
RejectBlock ==
    [Ev("headers") EXCEPT !.code = RejectStatus, !.ctype = "text/html"]

RejectBody == BodyEv(<<"<h1>503 Too many connections</h1>">>)

\* f"<h1>{msg}</h1>"
Template(msg) == <<"<h1>", msg, "</h1>">>

\* statuses of the header blocks among events
RECURSIVE StatusesOf(_)
StatusesOf(evs) ==
    IF evs = <<>> THEN <<>>
    ELSE (IF Head(evs).kind = "headers" THEN <<Head(evs).code>> ELSE <<>>)
         \o StatusesOf(Tail(evs))

\* ---- the application: routes, hooks and static files ----
StatusUrl == <<"/","s","t","a","t","u","s">>
Star == <<"*">>
RootUrl == <<"/">>
IndexUrl == <<"/","i","n","d","e","x",".","h","t","m","l">>
ScriptUrl == <<"/","a","p","p",".","j","s">>
QueryUrl == <<"/","s","t","a","t","u","s","?","x","=","1">>
TraversalUrl == <<"/",".",".","/","m","a","i","n",".","p","y">>
STATIC_DIR == <<".","/","h","t","m","l">>
DotHtml == <<".","h","t","m","l">>
HTTP11 == <<"H","T","T","P","/","1",".","1">>

\* what a route handler does when awaited
HandlerResults ==
    {"dict", "list", "str", "none", "HttpError", "Exception", "OSError"}

\* the typed error a handler raises: HttpError(request, code, msg)
HandlerError == [code |-> 403, msg |-> "Forbidden"]

\* self.routes[path] = (func, methods)
Route(res, methods) == [result |-> res, methods |-> methods]

NoRoutes == [p \in {} |-> Route("none", {})]

OneRoute(path, res, methods) == [p \in {path} |-> Route(res, methods)]

\* an exact route and the wildcard route together
TwoRoutes(path, res, methods, starRes, starMethods) ==
    [p \in {path, Star} |->
        IF p = path THEN Route(res, methods) ELSE Route(starRes, starMethods)]

\* number of hooks registered of each kind (before, after, on_error)
MaxHooks == 2

HookKinds == {"before", "after", "error"}

\* the kinds of hook whose first registered hook raises an exception
RaisingSets == {{}, HookKinds} \cup {{k} : k \in HookKinds}

App(routes, files, hooks) ==
    [routes |-> routes, files |-> files, hooks |-> hooks, raising |-> {}]

Raising(a, kinds) == [a EXCEPT !.raising = kinds]

IndexFile == STATIC_DIR \o <<"/">> \o Drop(IndexUrl, 1)
ScriptFile == STATIC_DIR \o <<"/">> \o Drop(ScriptUrl, 1)

\* a file of the device next to the static root: ./main.py
MainFile == <<".","/","m","a","i","n",".","p","y">>

\* the files of the device, by their resolved paths
FileSets == {{}, {IndexFile, ScriptFile, MainFile}}

RouteTables ==
    {NoRoutes}
    \cup {OneRoute(StatusUrl, r, ms) :
            r \in HandlerResults, ms \in {{GET}, {GET, OPTIONS}}}
    \cup {OneRoute(Star, r, {GET, OPTIONS}) : r \in {"dict", "HttpError"}}
    \cup {TwoRoutes(StatusUrl, "str", ms, "dict", {GET}) : ms \in {{GET}, {POST}}}

Apps ==
    {App(rt, fs, 0) : rt \in RouteTables, fs \in FileSets}
    \cup {Raising(App(rt, fs, h), ks) :
             rt \in RouteTables, fs \in FileSets, h \in 1..MaxHooks,
             ks \in RaisingSets}

\* an application with one hook of each kind, no route and no file
SimpleApp == App(NoRoutes, {}, MaxHooks)

\* ---- request lines the peer sends ----
RequestLine(m, target) == m \o <<SP>> \o target \o <<SP>> \o HTTP11 \o CRLF

Targets == {RootUrl, StatusUrl, QueryUrl, IndexUrl, ScriptUrl, TraversalUrl}

\* lines that do not split into 3 tokens: end of stream, a bare CRLF, two
\* tokens, four tokens; and a line that is not valid UTF-8
EndOfStream == <<>>
ShortLine == GET \o <<SP>> \o RootUrl \o CRLF
LongLine == GET \o <<SP>> \o RootUrl \o <<SP>> \o HTTP11 \o <<SP, "x">> \o CRLF
BinaryLine == <<xFF>> \o CRLF

OddLines == {EndOfStream, CRLF, ShortLine, LongLine, BinaryLine}

RequestLines == {RequestLine(m, t) : m \in Methods, t \in Targets} \cup OddLines

SimpleLines == {RequestLine(m, RootUrl) : m \in Methods} \cup {EndOfStream, ShortLine}

\* what the environment does to a dispatched request ("" before the
\* dispatch): nothing; the transport
\* is broken (every write raises OSError); the file is removed between
\* os.stat and open (ENOENT); reading the file fails (another OSError);
\* json.dumps raises; the peer has reset the connection (every write raises
\* ECONNRESET)
Faults == {"none", "broken", "vanish", "io", "dumps", "reset"}

\* the faults of the transport itself
TransportFaults == {"broken", "reset"}

SimpleFaults == {"none", "broken"}

\* ---- request headers and POST body ----
\* header lines read for one request in a run of the model
MaxHeaderLines == 2

\* longest POST body of the model
MaxPost == 2

\* request.json: None, or the value json.loads gave
JsonValue(type, n) == [type |-> type, n |-> n]

None == JsonValue("None", 0)

\* json.loads(body) raised
Invalid == JsonValue("ValueError", 0)

\* json.loads(body) on the documents the model's bodies can spell: an
\* integer, the empty object, the empty array (whitespace around them is
\* skipped); anything else, and bytes that are not UTF-8, raise
JsonLoads(body) ==
    IF ~Decodable(body) THEN Invalid
    ELSE LET t == Strip(Decode(body))
         IN CASE t = <<"{", "}">> -> JsonValue("dict", 0)
              [] t = <<"[", "]">> -> JsonValue("list", 0)
              [] ParseInt(t) # Raise -> JsonValue("int", ParseInt(t))
              [] OTHER -> Invalid

\* `try: request.json = json.loads(body)` / `except: request.json = None`
ParsedBody(body) ==
    IF JsonLoads(body) = Invalid THEN None ELSE JsonLoads(body)

NoHeaders == [k \in {} |-> <<>>]

\* Request() and the locals of handle; hbytes, hlines and reads count the
\* bytes and lines of header read and the body reads that returned data;
\* eof: the peer has closed its side (a read has returned b"", and every
\* later read returns b"" at once)
NewRequest ==
    [headers |-> NoHeaders, json |-> None, length |-> 0, body |-> <<>>,
     hbytes |-> 0, hlines |-> 0, reads |-> 0, eof |-> FALSE]

\* `if ":" in hline: k, v = hline.split(":", 1);
\*  request.headers[k.strip()] = v.strip()`
StoreHeader(r, hline) ==
    LET p == IndexIn(":", hline)
        k == Strip(Slice(hline, 1, p - 1))
        v == Strip(Drop(hline, p))
        counted == [r EXCEPT !.hbytes = @ + Len(hline), !.hlines = @ + 1]
    IN IF p = 0 THEN counted
       ELSE [counted EXCEPT !.headers =
                [x \in DOMAIN r.headers \cup {k} |->
                    IF x = k THEN v ELSE r.headers[x]]]

\* `int(request.headers.get("Content-Length", 0))`
ContentLength(h) == IF CLName \in DOMAIN h THEN ParseInt(h[CLName]) ELSE 0

\* `while len(body) < length` is left
BodyCompleteAfterRead(body, length) == TRUE

BodyComplete(body, length) == ~(Len(body) < length)

\* header lines the peer sends: Content-Length in each spelling, a value
\* that is no number, bytes that are not UTF-8, a line without colon, a line
\* longer than MAX_HEADER; the blank line and the end of the stream
LongHeaderLine == HeaderLine(<<"X">>, Pad(MAX_HEADER))

HeaderLines ==
    {HeaderLine(CLName, DecText(n)) : n \in 0..MaxPost}
    \cup {HeaderLine(Styled(CLName, st), DecText(MaxPost)) : st \in Styles}
    \cup {HeaderLine(CLName, <<"x">>), <<"X", ":", SP, xFF>> \o CRLF,
          <<"x">> \o CRLF, LongHeaderLine, CRLF, EndOfStream}

\* a request without header lines
SimpleHeaderLines == {CRLF}

\* what one reader.read(n) of the body returns
PostBytes == {"{", "}", "1", "x"}

BodyChunks == SeqsUpTo(PostBytes, MaxPost) \ {<<>>}

\* the requests and the application of the parsing runs
ParseLines ==
    {RequestLine(POST, StatusUrl), RequestLine(GET, StatusUrl), BinaryLine}

ParseApps == {App(OneRoute(StatusUrl, "str", {GET, POST}), {}, 1)}

SInit ==
    /\ connections = {}
    /\ lockHolder = NoTask
    /\ lockQueue = <<>>
    /\ spc = [c \in Conns |-> "idle"]
    /\ method = [c \in Conns |-> <<>>]
    /\ url = [c \in Conns |-> <<>>]
    /\ didRead = [c \in Conns |-> FALSE]
    /\ written = [c \in Conns |-> <<>>]
    /\ closed = [c \in Conns |-> FALSE]
    /\ sawFull = [c \in Conns |-> FALSE]
    /\ events = [c \in Conns |-> <<>>]
    /\ fault = [c \in Conns |-> ""]
    /\ request = [c \in Conns |-> NewRequest]

\* asyncio.Lock.release(): the lock passes to the oldest waiter, which is
\* scheduled to run; with no waiter the lock becomes free.
LockAfterRelease(q) ==
    IF q = <<>> THEN NoTask ELSE Head(q)

QueueAfterRelease(q) ==
    IF q = <<>> THEN <<>> ELSE Tail(q)

\* `len(self._connections) >= self.max_connections`
AdmissionFullOff(conns) ==
    Cardinality(conns) > max_connections

AdmissionFull(conns) ==
    Cardinality(conns) >= max_connections

\* Body of `async with self._lock:` at the top of handle, run by c once it
\* owns the lock: reject (keeping the lock across the 503 write) or admit
\* and release.
AdmissionCheck(c) ==
    IF AdmissionFull(connections)
    THEN /\ sawFull' = [sawFull EXCEPT ![c] = TRUE]
         /\ spc' = [spc EXCEPT ![c] = "rej_write"]
         /\ lockHolder' = c
         /\ UNCHANGED <<connections, lockQueue>>
    ELSE /\ connections' = connections \cup {c}
         /\ spc' = [spc EXCEPT ![c] = "reqline"]
         /\ lockHolder' = LockAfterRelease(lockQueue)
         /\ lockQueue' = QueueAfterRelease(lockQueue)
         /\ UNCHANGED sawFull

\* start_server hands a new connection to handle(); handle runs up to its
\* first suspension point.
Accept(c) ==
    /\ UNCHANGED cvars
    /\ spc[c] = "idle"
    /\ IF lockHolder = NoTask
       THEN AdmissionCheck(c)
       ELSE /\ lockQueue' = Append(lockQueue, c)
            /\ spc' = [spc EXCEPT ![c] = "wait_admit"]
            /\ UNCHANGED <<connections, lockHolder, sawFull>>
    /\ UNCHANGED <<method, url, didRead, written, closed, app, events, fault,
                   request>>

\* c was suspended in _lock.acquire() and has been given the lock.
AdmitAfterWait(c) ==
    /\ UNCHANGED cvars
    /\ spc[c] = "wait_admit"
    /\ lockHolder = c
    /\ AdmissionCheck(c)
    /\ UNCHANGED <<method, url, didRead, written, closed, app, events, fault,
                   request>>

\* `await writer.awrite("HTTP/1.1 503 ...")` completes; the lock is held.
RejectWrite(c) ==
    /\ UNCHANGED cvars
    /\ spc[c] = "rej_write"
    /\ written' = [written EXCEPT ![c] = Append(@, RejectStatus)]
    /\ events' = [events EXCEPT ![c] = @ \o <<RejectBlock, RejectBody>>]
    /\ spc' = [spc EXCEPT ![c] = "rej_close"]
    /\ UNCHANGED <<connections, lockHolder, lockQueue, method, url, didRead,
                   closed, sawFull, app, fault, request>>

\* awrite raises OSError: `except OSError: pass`, then `return` leaves the
\* `async with` block; writer.aclose() is skipped.
RejectWriteError(c) ==
    /\ UNCHANGED cvars
    /\ spc[c] = "rej_write"
    /\ spc' = [spc EXCEPT ![c] = "done"]
    /\ lockHolder' = LockAfterRelease(lockQueue)
    /\ lockQueue' = QueueAfterRelease(lockQueue)
    /\ UNCHANGED <<connections, method, url, didRead, written, closed,
                   sawFull, app, events, fault, request>>

\* `await writer.aclose()` of the rejection path (an OSError it raises is
\* swallowed as well), then `return` releases the lock.
RejectClose(c) ==
    /\ UNCHANGED cvars
    /\ spc[c] = "rej_close"
    /\ closed' = [closed EXCEPT ![c] = TRUE]
    /\ events' = [events EXCEPT ![c] = Append(@, Ev("close"))]
    /\ spc' = [spc EXCEPT ![c] = "done"]
    /\ lockHolder' = LockAfterRelease(lockQueue)
    /\ lockQueue' = QueueAfterRelease(lockQueue)
    /\ UNCHANGED <<connections, method, url, didRead, written,
                   sawFull, app, fault, request>>

\* Each call of a hook has its own try/except inside the loop: hook j runs
\* whatever the hooks before it did
HookRunsUntilRaise(a, kind, j) ==
    \A k \in 1..(j - 1) : ~HookCall(a, kind, k, 0, <<>>).raised

HookRuns(a, kind, j) == TRUE

\* `for h in hooks: try: h(...) except ...`: the calls made, in order
HookLoop(a, kind, code, text) ==
    SelectSeq([j \in 1..a.hooks |-> HookCall(a, kind, j, code, text)],
              LAMBDA e : HookRuns(a, kind, e.hook))

\* the after-hooks loop of `finally`: h(request, status_code) for each hook
\* (an exception of a hook is caught and printed)
AfterHooks(a, status_code) == HookLoop(a, "after", status_code, <<>>)

\* The rest of handle for c once its try block and except clauses put evs on
\* record, with the local status_code: `finally:` up to the second
\* `async with self._lock`: after-hooks, writer.aclose() (OSError swallowed),
\* then the lock is taken or waited for.
Teardown(c, evs, status_code) ==
    /\ closed' = [closed EXCEPT ![c] = TRUE]
    /\ written' = [written EXCEPT ![c] = @ \o StatusesOf(evs)]
    /\ events' = [events EXCEPT ![c] =
                     @ \o evs \o AfterHooks(app, status_code) \o <<Ev("close")>>
                       \o (IF lockHolder = NoTask THEN <<Ev("release")>> ELSE <<>>)]
    /\ IF lockHolder = NoTask
       THEN /\ connections' = connections \ {c}
            /\ spc' = [spc EXCEPT ![c] = "done"]
            /\ UNCHANGED <<lockHolder, lockQueue>>
       ELSE /\ lockQueue' = Append(lockQueue, c)
            /\ spc' = [spc EXCEPT ![c] = "wait_release"]
            /\ UNCHANGED <<connections, lockHolder>>

\* ---- the try block and the except clauses, as outcomes ----
\* An outcome: the events put on record and the exception left raised
\* (kind "" when none)
Exc(kind, code, msg) == [kind |-> kind, code |-> code, msg |-> msg]

NoExc == Exc("", 0, "")

Ends(evs) == [events |-> evs, exc |-> NoExc]

Fails(evs, e) == [events |-> evs, exc |-> e]

\* o1; o2: o2 runs only when o1 raised nothing
Then(o1, o2) ==
    IF o1.exc.kind # "" THEN o1
    ELSE [events |-> o1.events \o o2.events, exc |-> o2.exc]

\* write(request, data): an OSError other than ECONNRESET / ENOTCONN is
\* raised again (event wfail: the write was attempted and raised); one of
\* these two is swallowed (event wlost: attempted, nothing delivered)
Write(f, text) ==
    CASE f = "broken" -> Fails(<<Ev("wfail")>>, Exc("OSError", 0, "write"))
      [] f = "reset" -> Ends(<<Ev("wlost")>>)
      [] OTHER -> Ends(<<BodyEv(text)>>)

\* send_headers: its first write raises on a broken transport
SendHeaders(f, status_code, content_type, cache) ==
    CASE f = "broken" -> Fails(<<Ev("wfail")>>, Exc("OSError", 0, "write"))
      [] f = "reset" -> Ends(<<Ev("wlost")>>)
      [] OTHER -> Ends(<<HeaderBlock(status_code, content_type, cache)>>)

FileBody(path) == <<"contents of">> \o path

\* send_file: open() failing with ENOENT raises HttpError(request, 404,
\* "File Not Found"), any other OSError is raised again; else the file is
\* streamed in chunks of 512
SendFile(f, path) ==
    CASE f = "vanish" -> Fails(<<>>, Exc("HttpError", NotFoundStatus, "File Not Found"))
      [] f = "io" -> Fails(<<>>, Exc("OSError", 0, "read"))
      [] f = "broken" -> Fails(<<Ev("wfail")>>, Exc("OSError", 0, "write"))
      [] f = "reset" -> Ends(<<Ev("wlost")>>)
      [] OTHER -> Ends(<<BodyEv(FileBody(path))>>)

\* _MIME.get(ext, 'application/octet-stream')
Mime(ext) ==
    CASE ext = <<".","h","t","m","l">> -> "text/html"
      [] ext = <<".","c","s","s">> -> "text/css"
      [] ext = <<".","j","s">> -> "application/javascript"
      [] ext = <<".","i","c","o">> -> "image/x-icon"
      [] ext = <<".","p","n","g">> -> "image/png"
      [] ext = <<".","j","p","g">> -> "image/jpeg"
      [] ext = <<".","j","s","o","n">> -> "application/json"
      [] OTHER -> "application/octet-stream"

\* serve_static: the path and content type of a url
StaticUrl(u) == IF Contains(u, <<".">>) THEN u ELSE u \o DotHtml

StaticPath(u) == STATIC_DIR \o <<"/">> \o Drop(StaticUrl(u), 1)

StaticExt(u) ==
    LET pieces == SplitOn(StaticUrl(u), <<".">>)
    IN <<".">> \o pieces[Len(pieces)]

\* The file a path names for os.stat() and open(): the filesystem walks the
\* path from the working directory, "." stays, ".." goes to the parent (the
\* top directory is its own parent). The result is spelled ./a/b.
RECURSIVE Walk(_, _)
Walk(segs, dirs) ==
    IF segs = <<>> THEN dirs
    ELSE LET seg == Head(segs)
         IN CASE seg \in {<<>>, <<".">>} -> Walk(Tail(segs), dirs)
              [] seg = <<".", ".">> -> Walk(Tail(segs), Take(dirs, Len(dirs) - 1))
              [] OTHER -> Walk(Tail(segs), Append(dirs, seg))

RECURSIVE Spell(_)
Spell(dirs) ==
    IF dirs = <<>> THEN <<>> ELSE <<"/">> \o Head(dirs) \o Spell(Tail(dirs))

Resolve(path) == <<".">> \o Spell(Walk(SplitOn(path, <<"/">>), <<>>))

NotFoundBody == <<"<h1>404 Not Found</h1>">>

ServerErrorBody == <<"<h1>500 Internal Server Error</h1>">>

\* serve_static(request): os.stat raising OSError, or an OSError of the
\* sends, leads to the 404 of its except clause
ServeStatic(u, a, f) ==
    LET notFound == Then(SendHeaders(f, NotFoundStatus, "text/html", FALSE),
                         Write(f, NotFoundBody))
        sent == Then(SendHeaders(f, RouteStatus, Mime(StaticExt(u)), TRUE),
                     SendFile(f, StaticPath(u)))
    IN IF Resolve(StaticPath(u)) \notin a.files THEN notFound
       ELSE IF sent.exc.kind = "OSError"
            THEN [events |-> sent.events \o notFound.events, exc |-> notFound.exc]
            ELSE sent

\* `isinstance(result, (dict, list))`
IsJsonResultDictOnly(res) == res = "dict"

IsJsonResult(res) == res \in {"dict", "list"}

\* `result = await handler(request)` and the isinstance tests on result
RunHandler(res, f) ==
    CASE IsJsonResult(res) ->
             Then(SendHeaders(f, RouteStatus, "application/json", FALSE),
                  IF f = "dumps" THEN Fails(<<>>, Exc("Exception", 0, "dumps failed"))
                  ELSE Write(f, <<"json.dumps", res>>))
      [] res = "str" ->
             Then(SendHeaders(f, RouteStatus, "text/plain", FALSE),
                  Write(f, <<res>>))
      [] res = "HttpError" ->
             Fails(<<>>, Exc("HttpError", HandlerError.code, HandlerError.msg))
      [] res = "Exception" -> Fails(<<>>, Exc("Exception", 0, "handler failed"))
      [] res = "OSError" -> Fails(<<>>, Exc("OSError", 0, "handler"))
      [] OTHER -> Ends(<<>>)

\* self.routes.get(request.url), then self.routes.get('*'): whether an
\* entry was found, the entry, and its key
LookupStarFirst(routes, u) ==
    IF Star \in DOMAIN routes THEN <<TRUE, routes[Star], Star>>
    ELSE IF u \in DOMAIN routes THEN <<TRUE, routes[u], u>>
    ELSE <<FALSE, Route("none", {}), <<>>>>

Lookup(routes, u) ==
    IF u \in DOMAIN routes THEN <<TRUE, routes[u], u>>
    ELSE IF Star \in DOMAIN routes THEN <<TRUE, routes[Star], Star>>
    ELSE <<FALSE, Route("none", {}), <<>>>>

\* the before-hooks loop: h(request) for each hook
BeforeHooksSkipped(a) == <<>>

BeforeHooks(a) == HookLoop(a, "before", 0, <<>>)

\* `request.method == "OPTIONS"`
IsOptionsLower(m) == m = Lower(OPTIONS)

IsOptions(m) == m = OPTIONS

\* `request.method in methods`
MethodAllowedAlways(route, m) == TRUE

MethodAllowed(route, m) == m \in route.methods

\* The try block of handle from the before-hooks on
TryBlock(m, u, a, f) ==
    IF IsOptions(m)
    THEN Then(Ends(BeforeHooks(a)),
              SendHeaders(f, OptionsStatus, "text/html", FALSE))
    ELSE LET h == Lookup(a.routes, u)
         IN IF h[1] /\ MethodAllowed(h[2], m)
            THEN Then(Ends(BeforeHooks(a) \o <<HookEv("handler", 0, h[3])>>),
                      RunHandler(h[2].result, f))
            ELSE Then(Ends(BeforeHooks(a) \o <<Ev("static")>>),
                      ServeStatic(u, a, f))

\* every error hook called with (request, code, msg)
ErrorHooksSkipped(a, code, msg) == <<>>

ErrorHooks(a, code, msg) == HookLoop(a, "error", code, <<msg>>)

\* The except clauses of handle applied to the outcome of the try block
ExceptClauses(o, a, f) ==
    CASE o.exc.kind = "HttpError" ->
             Then(Ends(o.events \o ErrorHooks(a, o.exc.code, o.exc.msg)),
                  Then(SendHeaders(f, o.exc.code, "text/html", FALSE),
                       Write(f, Template(o.exc.msg))))
      [] o.exc.kind = "OSError" -> Ends(o.events \o <<Ev("print")>>)
      [] o.exc.kind = "Exception" ->
             Then(Ends(o.events \o ErrorHooks(a, ErrorStatus, o.exc.msg)),
                  Then(SendHeaders(f, ErrorStatus, "text/html", FALSE),
                       Write(f, ServerErrorBody)))
      [] OTHER -> o

\* the local status_code when `finally` runs
StatusCode(m) == IF IsOptions(m) THEN OptionsStatus ELSE RouteStatus

\* `len(parts) != 3` negated
ThreeTokensOrMore(parts) == Len(parts) >= 3

ThreeTokens(parts) == Len(parts) = 3

\* request.url: the target up to the first "?"
UrlOf(target) ==
    IF Contains(target, <<"?">>) THEN SplitOn(target, <<"?">>)[1] ELSE target

\* `line = await asyncio.wait_for(reader.readline(), 5)` returns line (empty
\* at end of stream): `return` when it is empty or does not split into three
\* tokens; line.decode() raising UnicodeError is handled by `except
\* Exception`; else method and url are set and the first header line is
\* awaited.
ReadRequestLine(c, line) ==
    /\ UNCHANGED cvars
    /\ spc[c] = "reqline"
    /\ didRead' = [didRead EXCEPT ![c] = TRUE]
    /\ IF line = <<>>
       THEN Teardown(c, <<>>, RouteStatus) /\ UNCHANGED <<method, url>>
       ELSE IF ~Decodable(line)
       THEN /\ Teardown(c, ExceptClauses(Fails(<<>>, Exc("Exception", 0, "UnicodeError")),
                                         app, "none").events,
                        RouteStatus)
            /\ UNCHANGED <<method, url>>
       ELSE LET parts == SplitWS(Decode(line))
            IN IF ThreeTokens(parts)
               THEN /\ method' = [method EXCEPT ![c] = parts[1]]
                    /\ url' = [url EXCEPT ![c] = UrlOf(parts[2])]
                    /\ spc' = [spc EXCEPT ![c] = "headers"]
                    /\ UNCHANGED <<connections, lockHolder, lockQueue, closed,
                                   written, events>>
               ELSE Teardown(c, <<>>, RouteStatus) /\ UNCHANGED <<method, url>>
    /\ UNCHANGED <<sawFull, app, fault, request>>

\* A wait_for(..., 5) read of c expires (asyncio.TimeoutError) or the
\* transport fails (OSError): `except (OSError, asyncio.TimeoutError)`. At
\* end of stream a read returns b"" at once, so its timeout never expires.
ReadFails(c) ==
    /\ UNCHANGED cvars
    /\ spc[c] \in {"reqline", "headers", "body"}
    /\ ~request[c].eof
    /\ Teardown(c, ExceptClauses(Fails(<<Ev("rfail")>>, Exc("OSError", 0, "read")),
                                  app, "none").events,
                 RouteStatus)
    /\ UNCHANGED <<method, url, didRead, sawFull, app, fault, request>>

\* what `except Exception` does with an exception raised while the request
\* is parsed (UnicodeError of decode(), ValueError of int())
ParseError(msg) ==
    ExceptClauses(Fails(<<>>, Exc("Exception", 0, msg)), app, "none").events

\* The header loop is left (blank line or end of stream). For POST the
\* length is taken from the headers (int() raising ValueError is handled
\* by `except Exception`) and the body loop is entered when length > 0;
\* with no body to read the before-hooks are next. ended: the loop was left
\* because the stream ended.
EndOfHeaders(c, ended) ==
    IF method[c] = POST /\ ContentLength(request[c].headers) = Raise
    THEN Teardown(c, ParseError("ValueError"), RouteStatus) /\ UNCHANGED request
    ELSE LET n == IF method[c] = POST THEN ContentLength(request[c].headers)
                  ELSE 0
         IN /\ request' = [request EXCEPT ![c].length = n, ![c].eof = ended]
            /\ spc' = [spc EXCEPT ![c] = IF n > 0 THEN "body" ELSE "dispatch"]
            /\ UNCHANGED <<connections, lockHolder, lockQueue, written,
                           closed, events>>

\* `hline = await asyncio.wait_for(reader.readline(), 5)` returns hline: the
\* loop ends on the empty line (end of stream) and on CRLF; hline.decode()
\* raising UnicodeError is handled by `except Exception`; else the line is
\* stored when it holds a colon and the next line is awaited. The loop
\* itself has no bound; the model stops after MaxHeaderLines lines.
ReadHeaderLine(c, hline) ==
    /\ UNCHANGED cvars
    /\ spc[c] = "headers"
    /\ (hline \notin {EndOfStream, CRLF}) => request[c].hlines < MaxHeaderLines
    /\ didRead' = [didRead EXCEPT ![c] = TRUE]
    /\ IF hline \in {EndOfStream, CRLF}
       THEN EndOfHeaders(c, hline = EndOfStream)
       ELSE IF ~Decodable(hline)
       THEN Teardown(c, ParseError("UnicodeError"), RouteStatus)
            /\ UNCHANGED request
       ELSE /\ request' = [request EXCEPT ![c] = StoreHeader(@, Decode(hline))]
            /\ UNCHANGED <<connections, lockHolder, lockQueue, spc, written,
                           closed, events>>
    /\ UNCHANGED <<method, url, sawFull, app, fault>>

\* POST: `body += await asyncio.wait_for(reader.read(length - len(body)), 5)`
\* returns chunk, at most the bytes asked for, b"" when the peer has closed
\* its side (the loop does not test for it and asks again); when the loop is
\* left the body is parsed as JSON (None when that fails).
ReadBody(c, chunk) ==
    /\ UNCHANGED cvars
    /\ spc[c] = "body"
    /\ Len(chunk) <= request[c].length - Len(request[c].body)
    /\ request[c].eof => chunk = EndOfStream
    /\ didRead' = [didRead EXCEPT ![c] = TRUE]
    /\ LET body == request[c].body \o chunk
           n == IF chunk = EndOfStream THEN 0 ELSE 1
       IN IF BodyComplete(body, request[c].length)
          THEN /\ request' = [request EXCEPT ![c].body = body,
                                             ![c].reads = @ + n,
                                             ![c].json = ParsedBody(body)]
               /\ spc' = [spc EXCEPT ![c] = "dispatch"]
          ELSE /\ request' = [request EXCEPT ![c].body = body,
                                             ![c].reads = @ + n,
                                             ![c].eof = (chunk = EndOfStream)]
               /\ UNCHANGED spc
    /\ UNCHANGED <<connections, lockHolder, lockQueue, method, url, written,
                   closed, sawFull, app, events, fault>>

\* Before-hooks, OPTIONS short-circuit, route handler or static responder,
\* the except clauses, then `finally`; f is what the environment does to
\* the request meanwhile.
Dispatch(c, f) ==
    /\ UNCHANGED cvars
    /\ spc[c] = "dispatch"
    /\ fault' = [fault EXCEPT ![c] = f]
    /\ Teardown(c, ExceptClauses(TryBlock(method[c], url[c], app, f), app, f).events,
                StatusCode(method[c]))
    /\ UNCHANGED <<method, url, didRead, sawFull, app, request>>

\* c was suspended in the `async with self._lock` of `finally` and now owns
\* the lock: `self._connections.discard(conn_id)`, release.
ReleaseSlot(c) ==
    /\ UNCHANGED cvars
    /\ spc[c] = "wait_release"
    /\ lockHolder = c
    /\ connections' = connections \ {c}
    /\ events' = [events EXCEPT ![c] = Append(@, Ev("release"))]
    /\ spc' = [spc EXCEPT ![c] = "done"]
    /\ lockHolder' = LockAfterRelease(lockQueue)
    /\ lockQueue' = QueueAfterRelease(lockQueue)
    /\ UNCHANGED <<method, url, didRead, written, closed, sawFull, app, fault,
                   request>>

\* every connection, simple requests: the interleavings of admission,
\* handling and teardown
SNext ==
    \E c \in Conns :
        \/ Accept(c)
        \/ AdmitAfterWait(c)
        \/ RejectWrite(c)
        \/ RejectWriteError(c)
        \/ RejectClose(c)
        \/ \E line \in SimpleLines : ReadRequestLine(c, line)
        \/ ReadFails(c)
        \/ \E hline \in SimpleHeaderLines : ReadHeaderLine(c, hline)
        \/ \E f \in SimpleFaults : Dispatch(c, f)
        \/ ReleaseSlot(c)

\* one connection handled alone, every request line and fault
OneConn == {c \in Conns : \A d \in Conns : c <= d}

RNext ==
    \E c \in OneConn :
        \/ Accept(c)
        \/ \E line \in RequestLines : ReadRequestLine(c, line)
        \/ ReadFails(c)
        \/ \E hline \in SimpleHeaderLines : ReadHeaderLine(c, hline)
        \/ \E f \in Faults : Dispatch(c, f)

\* one connection, its request parsed line by line and read by read: every
\* header line and every way the body arrives
PNext ==
    \E c \in OneConn :
        \/ Accept(c)
        \/ \E line \in ParseLines : ReadRequestLine(c, line)
        \/ ReadFails(c)
        \/ \E hline \in HeaderLines : ReadHeaderLine(c, hline)
        \/ \E chunk \in BodyChunks \cup {EndOfStream} : ReadBody(c, chunk)
        \/ Dispatch(c, "none")


(***************************************************************************)
(*                              CLIENT                                     *)
(***************************************************************************)
\* Bounds of the client runs
MaxRetries == 2
MaxBody == 2
MaxFallback == 2
LongBody == 10

\* ---- the peer: responses put on the wire (wire grammar of the protocol) ----
HexDigits == <<"0","1","2","3","4","5","6","7","8","9","a","b","c","d","e","f">>

RECURSIVE HexText(_)
HexText(n) ==
    IF n < 16 THEN <<HexDigits[n + 1]>>
    ELSE HexText(n \div 16) \o <<HexDigits[(n % 16) + 1]>>

\* All ways to cut n bytes into non-empty chunks (sequences of sizes)
RECURSIVE Compositions(_)
Compositions(n) ==
    IF n = 0 THEN {<<>>}
    ELSE UNION {{<<k>> \o r : r \in Compositions(n - k)} : k \in 1..n}

\* <hex-size> CRLF <bytes> CRLF per chunk, then the zero-size chunk
RECURSIVE ChunkEncode(_, _)
ChunkEncode(payload, split) ==
    IF split = <<>> THEN <<"0">> \o CRLFCRLF
    ELSE HexText(Head(split)) \o CRLF \o Take(payload, Head(split)) \o CRLF
         \o ChunkEncode(Drop(payload, Head(split)), Tail(split))

\* A response description: style of the header names, Transfer-Encoding
\* value (te, with hasTE), Content-Length value (cl, with hasCL), the payload
\* and, for a chunked response, the chunk sizes; its status line; silent
\* when the peer closes before sending anything; cut: the number of bytes
\* at the end of the response the peer closes without sending.
WholeWire(r) ==
    r.statusLine \o CRLF
    \o (IF r.hasTE THEN HeaderLine(Styled(TEName, r.style), r.te) ELSE <<>>)
    \o (IF r.hasCL THEN HeaderLine(Styled(CLName, r.style), r.cl) ELSE <<>>)
    \o CRLF
    \o (IF r.hasTE /\ Contains(r.te, ChunkedText)
        THEN ChunkEncode(r.payload, r.split) ELSE r.payload)

Wire(r) ==
    IF r.silent THEN <<>> ELSE Take(WholeWire(r), Len(WholeWire(r)) - r.cut)

\* Payload bytes: a letter, the two bytes of the line delimiter, and (in
\* BinaryPayloads) a byte that is not valid UTF-8
BodyBytes == {"a", CR, LF}

BinaryPayloads == {<<xFF>>, <<"a", xFF>>}

Payloads ==
    SeqsUpTo(BodyBytes, MaxBody) \cup BinaryPayloads
    \cup {[j \in 1..LongBody |-> "a"]}

TextPayloads == {[j \in 1..n |-> "a"] : n \in 0..(MaxFallback + 1)}

NoSplit == <<>>

Resp(style, hasTE, te, hasCL, cl, payload, split) ==
    [style |-> style, hasTE |-> hasTE, te |-> te, hasCL |-> hasCL, cl |-> cl,
     payload |-> payload, split |-> split, statusLine |-> StatusLine200,
     silent |-> FALSE, cut |-> 0]

SplitsOf(p) ==
    IF Len(p) <= MaxBody + 1 THEN Compositions(Len(p)) ELSE {<<Len(p)>>}

\* chunked responses without Content-Length: every payload, every split
ChunkedResps ==
    UNION {{Resp("canon", TRUE, ChunkedText, FALSE, <<>>, p, sp) :
                sp \in SplitsOf(p)} : p \in Payloads}

\* Content-Length responses: every payload under every announced length
FixedResps ==
    {Resp("canon", FALSE, <<>>, TRUE, DecText(n), p, NoSplit) :
        n \in 0..(MaxBody + 1), p \in Payloads}

\* every spelling of the header names, with and without each framing header
OtherTE == <<"g","z","i","p">>

OneA == <<"a">>

FramingResps ==
    {Resp(style, te[1], te[2], cl[1], cl[2], OneA, <<1>>) :
        style \in Styles,
        te \in {<<FALSE, <<>>>>, <<TRUE, ChunkedText>>, <<TRUE, OtherTE>>},
        cl \in {<<FALSE, <<>>>>, <<TRUE, <<>>>>, <<TRUE, DecText(1)>>}}

\* no framing header: bodies below, at and above the fallback sizes
UnframedResps ==
    {Resp("canon", FALSE, <<>>, FALSE, <<>>, p, NoSplit) : p \in TextPayloads}

\* responses whose header block is about MAX_HEADER bytes long: the value of
\* one header line is padded so that the header with its delimiter ends at
\* byte MAX_HEADER, one byte later, or a whole read later
HeaderOverhead ==
    Len(Wire(Resp("canon", TRUE, <<>>, FALSE, <<>>, <<>>, NoSplit)))

LongHeaderResps ==
    {Resp("canon", TRUE, Pad(n - HeaderOverhead), FALSE, <<>>, OneA, NoSplit) :
        n \in {MAX_HEADER, MAX_HEADER + 1, MAX_HEADER + HEADER_READ}}

\* status lines: well formed with another code (4xx, 5xx) and with two
\* spaces; one token; empty; a code that is no number
StatusLines ==
    {<<"H","T","T","P","/","1",".","1"," ","4","0","4"," ","N","o">>,
     <<"H","T","T","P","/","1",".","1"," ","5","0","3"," ","N","o">>,
     <<"H","T","T","P","/","1",".","1"," "," ","2","0","0">>,
     <<"H","T","T","P","/","1",".","1">>,
     <<>>,
     <<"H","T","T","P","/","1",".","1"," ","a","b","c"," ","O","K">>,
     <<"H","T","T","P","/","1",".","1"," ","2","x","0">>}

\* a one-byte Content-Length response under each status line, and the peer
\* that closes before sending anything
StatusResps ==
    {[Resp("canon", FALSE, <<>>, TRUE, DecText(1), OneA, NoSplit)
        EXCEPT !.statusLine = l] : l \in StatusLines}
    \cup {[Resp("canon", FALSE, <<>>, FALSE, <<>>, <<>>, NoSplit)
             EXCEPT !.silent = TRUE]}

\* fallback_buffer_size: not given (None) or a size
Fallback(given, size) == [given |-> given, size |-> size]

NoFallback == Fallback(FALSE, 0)

Fallbacks == {NoFallback} \cup {Fallback(TRUE, n) : n \in 0..MaxFallback}

\* a one-chunk response that ends early: the peer closes 1, 2, ... bytes
\* before the end of the chunked body (in the terminator, in the chunk's
\* data, in its size line, or right after the headers)
CutResps ==
    {[Resp("canon", TRUE, ChunkedText, FALSE, <<>>, OneA, <<1>>)
        EXCEPT !.cut = n] : n \in 1..Len(ChunkEncode(OneA, <<1>>))}

RetryResps ==
    {Resp("canon", TRUE, ChunkedText, FALSE, <<>>, OneA, <<1>>),
     Resp("canon", FALSE, <<>>, TRUE, DecText(2), OneA \o OneA, NoSplit),
     Resp("canon", FALSE, <<>>, FALSE, <<>>, OneA \o OneA, NoSplit)}

Input(r, f, x) == [retries |-> r, fallback |-> f, resp |-> x]

\* The calls http_client(url, retries, timeout, fallback_buffer_size) and
\* the responses of the peer the model runs
ClientInputs ==
    {Input(r, f, x) : r \in 0..MaxRetries,
                      f \in {NoFallback, Fallback(TRUE, 1)}, x \in RetryResps}
    \cup {Input(1, NoFallback, x) : x \in ChunkedResps \cup FixedResps}
    \cup {Input(1, f, x) : f \in Fallbacks, x \in FramingResps \cup UnframedResps}
    \cup {Input(1, NoFallback, x) : x \in LongHeaderResps}
    \cup {Input(1, f, x) : f \in {NoFallback, Fallback(TRUE, 1)}, x \in StatusResps}
    \cup {Input(r, NoFallback, x) : r \in 1..MaxRetries, x \in CutResps}
    \cup {Input(MaxRetries, NoFallback, x) : x \in StatusResps}

NoStrategy == "none"

LocInit ==
    [header_bytes |-> <<>>, status |-> 0, headers |-> <<>>, hasHeaders |-> FALSE,
     strategy |-> NoStrategy, buffer |-> <<>>, body_parts |-> <<>>, size |-> 0,
     content_length |-> 0, idx |-> 0, body |-> <<>>]

Pending == [kind |-> "pending", status_code |-> 0, body |-> <<>>]

CInit ==
    \E in \in ClientInputs :
        /\ retries = in.retries
        /\ fallback = in.fallback
        /\ resp = in.resp
        /\ stream = Wire(in.resp)
        /\ i = 0
        /\ cpc = "start"
        /\ attempts = 0
        /\ sleeps = <<>>
        /\ writer = FALSE
        /\ openTransports = 0
        /\ pos = 0
        /\ loc = LocInit
        /\ lastErr = ""
        /\ result = Pending

\* ---- pure parts of single_request ----

\* header_bytes.partition(b"\r\n\r\n"): <<header_text, remaining>>
Partition(hb) ==
    LET p == Find(hb, CRLFCRLF)
    IN IF p = 0 THEN <<hb, <<>>>> ELSE <<Slice(hb, 1, p - 1), Drop(hb, p + 3)>>

\* `status = int(lines[0].split()[1])`, 500 on any exception
ParseStatusFirstDigits(line) ==
    LET toks == SplitWS(line)
    IN IF Len(toks) < 2 THEN 0
       ELSE DecValue(SelectSeq(toks[2], LAMBDA ch : IndexIn(ch, Digits) > 0))

ParseStatus(line) ==
    LET toks == SplitWS(line)
    IN IF Len(toks) < 2 THEN MALFORMED_STATUS
       ELSE IF ParseInt(toks[2]) = Raise THEN MALFORMED_STATUS
       ELSE ParseInt(toks[2])

\* `k.lower().strip()` of a header line's name
HeaderKey(k) == Strip(Lower(k))

\* the loop `for l in lines[1:]`: a later line replaces an earlier one
\* with the same key
RECURSIVE ParseHeaders(_)
ParseHeaders(lines) ==
    IF lines = <<>> THEN [k \in {} |-> <<>>]
    ELSE LET l == lines[Len(lines)]
             before == ParseHeaders(Slice(lines, 1, Len(lines) - 1))
             c == IndexIn(":", l)
         IN IF c = 0 THEN before
            ELSE LET k == HeaderKey(Slice(l, 1, c - 1))
                     v == Strip(Drop(l, c))
                 IN [x \in DOMAIN before \cup {k} |->
                        IF x = k THEN v ELSE before[x]]

\* dict.get(key, default)
Get(d, key, default) == IF key \in DOMAIN d THEN d[key] ELSE default

\* body[a:b] = data on a bytearray
SliceAssignInserts(body, a, b, data) ==
    Take(body, a) \o data \o Drop(body, a)

SliceAssign(body, a, b, data) ==
    LET lo == IF a < Len(body) THEN a ELSE Len(body)
        hi == IF b < lo THEN lo ELSE IF b < Len(body) THEN b ELSE Len(body)
    IN Take(body, lo) \o data \o Drop(body, hi)

Zeros(n) == [j \in 1..n |-> NUL]

\* Truthiness tests `elif content_length:` and `elif fallback_buffer_size:`
TruthyText(given, value) == given /\ value # <<>>

TruthyInt(given, value) == given /\ value # 0

Await(at, l) == [next |-> at, err |-> "", loc |-> l]

Raises(e, l) == [next |-> "raise", err |-> e, loc |-> l]

Returns(l, bytes) ==
    IF Decodable(bytes)
    THEN [next |-> "return", err |-> "", loc |-> [l EXCEPT !.body = Decode(bytes)]]
    ELSE Raises("UnicodeError", l)

\* `size + 2`: the chunk's bytes and the CRLF that ends it
ChunkNeedsNoCRLF(size) == size

ChunkNeeds(size) == size + 2

\* The chunked reader from the top of `while True` (ChunkLine) and from
\* `while len(buffer) < size + 2` (ChunkData), up to the next read
RECURSIVE ChunkLine(_)
RECURSIVE ChunkData(_)
ChunkLine(l) ==
    LET p == Find(l.buffer, CRLF) IN
    IF p = 0 THEN Await("rd_line", l)
    ELSE LET line == Slice(l.buffer, 1, p - 1)
             rest == Drop(l.buffer, p + 1)
             sz == ParseHex(line)
         IN IF sz = Raise THEN Raises("ValueError", l)
            ELSE IF sz = 0 THEN Returns([l EXCEPT !.buffer = rest, !.size = 0],
                                        l.body_parts)
            ELSE ChunkData([l EXCEPT !.buffer = rest, !.size = sz])

ChunkData(l) ==
    IF Len(l.buffer) < ChunkNeeds(l.size) THEN Await("rd_data", l)
    ELSE ChunkLine([l EXCEPT !.body_parts = @ \o Take(l.buffer, l.size),
                             !.buffer = Drop(l.buffer, l.size + 2)])

\* `while idx < content_length` up to the next read
FixedLoop(l) ==
    IF l.idx < l.content_length THEN Await("rd_fixed", l)
    ELSE Returns(l, l.body)

\* The strategy the `if / elif` chain of single_request takes
SelectStrategy(h, fb) ==
    IF Contains(Get(h, TEKey, <<>>), ChunkedText) THEN "chunked"
    ELSE IF TruthyText(CLKey \in DOMAIN h, Get(h, CLKey, <<>>)) THEN "content-length"
    ELSE IF TruthyInt(fb.given, fb.size) THEN "fallback"
    ELSE "dynamic"

\* From `header_text, _, remaining = header_bytes.partition(...)` up to the
\* first read of the body
AfterHeaders(l0, fb) ==
    LET part == Partition(l0.header_bytes)
        remaining == part[2]
    IN IF ~Decodable(part[1]) THEN Raises("UnicodeError", l0)
       ELSE
       LET lines == SplitOn(Decode(part[1]), CRLF)
           h == ParseHeaders(Tail(lines))
           strat == SelectStrategy(h, fb)
           l == [l0 EXCEPT !.status = ParseStatus(lines[1]), !.headers = h,
                           !.hasHeaders = TRUE, !.strategy = strat]
       IN CASE strat = "chunked" ->
                 ChunkLine([l EXCEPT !.buffer = remaining])
            [] strat = "content-length" ->
                 LET n == ParseInt(h[CLKey]) IN
                 IF n = Raise THEN Raises("ValueError", l)
                 ELSE FixedLoop([l EXCEPT
                         !.content_length = n,
                         !.body = SliceAssign(Zeros(n), 0, Len(remaining), remaining),
                         !.idx = Len(remaining)])
            [] strat = "fallback" ->
                 IF Len(remaining) > fb.size THEN Raises("Body too large", l)
                 ELSE Await("rd_fallback",
                            [l EXCEPT
                               !.body = SliceAssign(Zeros(fb.size), 0,
                                                    Len(remaining), remaining),
                               !.idx = Len(remaining)])
            [] OTHER ->
                 IF ~Decodable(remaining) THEN Raises("UnicodeError", l)
                 ELSE Await("rd_dynamic", [l EXCEPT !.body_parts = Decode(remaining)])

\* ---- the steps of http_client ----

InAttempt == {"connect", "drain", "rd_header", "rd_line", "rd_data",
              "rd_fixed", "rd_fallback", "rd_dynamic"}


\* `finally:` of single_request: `if writer: writer.close()`; the number of
\* transports left open
FinallyLeaks(w, open) == open

Finally(w, open) == IF w THEN open - 1 ELSE open

\* str(e) as the body of the synthetic response
ErrText(e) == <<e>>

\* `if i == retries-1:` of the except clause
LastAttemptOff(k, r) == k = r

LastAttempt(k, r) == k = r - 1

\* single_request raises e: `finally`, then `except Exception as e` of the
\* retry loop up to its return or to `await asyncio.sleep_ms(1000)`
AttemptFails(e) ==
    /\ openTransports' = Finally(writer, openTransports)
    /\ writer' = FALSE
    /\ loc' = LocInit
    /\ lastErr' = e
    /\ IF LastAttempt(i, retries)
       THEN /\ result' = [kind |-> "synthetic", status_code |-> SYNTHETIC_STATUS,
                          body |-> ErrText(e)]
            /\ cpc' = "done"
       ELSE /\ cpc' = "sleep"
            /\ UNCHANGED result
    /\ UNCHANGED <<retries, fallback, resp, stream, i, attempts, sleeps>>

\* single_request returns HttpResponse(status, headers, body): `finally`,
\* then `return await ...` of the retry loop
AttemptReturnsOkOnly(l) ==
    IF l.status >= 400 THEN AttemptFails("status")
    ELSE /\ openTransports' = Finally(writer, openTransports)
         /\ writer' = FALSE
         /\ loc' = l
         /\ result' = [kind |-> "response", status_code |-> l.status,
                       body |-> l.body]
         /\ cpc' = "done"
         /\ UNCHANGED <<retries, fallback, resp, stream, i, attempts, sleeps,
                        lastErr>>

AttemptReturns(l) ==
    /\ openTransports' = Finally(writer, openTransports)
    /\ writer' = FALSE
    /\ loc' = l
    /\ result' = [kind |-> "response", status_code |-> l.status, body |-> l.body]
    /\ cpc' = "done"
    /\ UNCHANGED <<retries, fallback, resp, stream, i, attempts, sleeps, lastErr>>

\* single_request runs on to outcome o: its next read, a return or a raise
\* (pos, the reader's place in the stream, is set by the step that reads)
Continue(o) ==
    CASE o.next = "raise" -> AttemptFails(o.err)
      [] o.next = "return" -> AttemptReturns(o.loc)
      [] OTHER -> /\ cpc' = o.next
                  /\ loc' = o.loc
                  /\ UNCHANGED <<retries, fallback, resp, stream, i, attempts,
                                 sleeps, writer, openTransports, lastErr, result>>

\* The call: `for i in range(retries)` starts the first attempt, or ends at
\* once (the function then returns None)
CStart ==
    /\ UNCHANGED svars
    /\ cpc = "start"
    /\ IF retries = 0
       THEN /\ cpc' = "done"
            /\ result' = [kind |-> "none", status_code |-> 0, body |-> <<>>]
            /\ UNCHANGED attempts
       ELSE /\ cpc' = "connect"
            /\ attempts' = 1
            /\ UNCHANGED result
    /\ UNCHANGED <<retries, fallback, resp, stream, i, sleeps, writer,
                   openTransports, pos, loc, lastErr>>

\* open_connection returns; the request is written, `await writer.drain()`
Connect ==
    /\ UNCHANGED svars
    /\ cpc = "connect"
    /\ writer' = TRUE
    /\ openTransports' = openTransports + 1
    /\ cpc' = "drain"
    /\ UNCHANGED <<retries, fallback, resp, stream, i, attempts, sleeps, pos, loc,
                   lastErr, result>>

\* open_connection raises OSError (resolution or connect failure)
ConnectFails ==
    /\ UNCHANGED svars
    /\ cpc = "connect"
    /\ pos' = 0
    /\ AttemptFails("OSError")

\* drain returns: the first `reader.read(64)` is awaited
Drain ==
    /\ UNCHANGED svars
    /\ cpc = "drain"
    /\ cpc' = "rd_header"
    /\ UNCHANGED <<retries, fallback, resp, stream, i, attempts, sleeps, writer,
                   openTransports, pos, loc, lastErr, result>>

\* drain or a read raises OSError (reset, broken pipe)
TransportError ==
    /\ UNCHANGED svars
    /\ cpc \in InAttempt \ {"connect"}
    /\ pos' = 0
    /\ AttemptFails("OSError")

\* wait_for_ms(single_request(), timeout) or an inner wait_for expires at the
\* suspension point the attempt is in
AttemptNeverTimesOut == FALSE /\ UNCHANGED vars

AttemptTimeout ==
    /\ UNCHANGED svars
    /\ cpc \in InAttempt
    /\ pos' = 0
    /\ AttemptFails("Timeout")

\* reader.read(n) delivers k bytes: 1..n of what the peer sent, 0 at the end
\* of the stream
CanRead(n, k) ==
    IF pos = Len(stream) THEN k = 0
    ELSE k >= 1 /\ k <= n /\ k <= Len(stream) - pos

Chunk(k) == Slice(stream, pos + 1, pos + k)

\* A read of k bytes after which single_request runs on to outcome o; the
\* stream of a closed transport is gone
AfterRead(k, o) ==
    /\ pos' = IF o.next \in {"raise", "return"} THEN 0 ELSE pos + k
    /\ Continue(o)

\* `if len(header_bytes) > MAX_HEADER:`
HeaderTooLargeLate(hb) == Len(hb) > MAX_HEADER + HEADER_READ

HeaderTooLarge(hb) == Len(hb) > MAX_HEADER

\* `chunk = await asyncio.wait_for(reader.read(64), timeout)` of the header loop
ReadHeader(k) ==
    /\ UNCHANGED svars
    /\ cpc = "rd_header"
    /\ CanRead(HEADER_READ, k)
    /\ LET hb == loc.header_bytes \o Chunk(k)
           l == [loc EXCEPT !.header_bytes = hb]
       IN IF k = 0 THEN AfterRead(k, AfterHeaders(loc, fallback))
          ELSE IF HeaderTooLarge(hb) THEN AfterRead(k, Raises("Header too large", l))
          ELSE IF Contains(hb, CRLFCRLF) THEN AfterRead(k, AfterHeaders(l, fallback))
          ELSE AfterRead(k, Await("rd_header", l))

\* `buffer.extend(await reader.read(64))` of the chunk-size line loop
ReadChunkLine(k) ==
    /\ UNCHANGED svars
    /\ cpc = "rd_line"
    /\ CanRead(HEADER_READ, k)
    /\ AfterRead(k, ChunkLine([loc EXCEPT !.buffer = @ \o Chunk(k)]))

\* `buffer.extend(await reader.read(size+2-len(buffer)))`
ReadChunkData(k) ==
    /\ UNCHANGED svars
    /\ cpc = "rd_data"
    /\ CanRead(ChunkNeeds(loc.size) - Len(loc.buffer), k)
    /\ AfterRead(k, ChunkData([loc EXCEPT !.buffer = @ \o Chunk(k)]))

\* `chunk = await reader.read(content_length-idx)`
ReadFixed(k) ==
    /\ UNCHANGED svars
    /\ cpc = "rd_fixed"
    /\ CanRead(loc.content_length - loc.idx, k)
    /\ IF k = 0 THEN AfterRead(k, Returns(loc, loc.body))
       ELSE AfterRead(k, FixedLoop([loc EXCEPT
                !.body = SliceAssign(@, loc.idx, loc.idx + k, Chunk(k)),
                !.idx = @ + k]))

\* `chunk = await reader.read(READ_SIZE)` of the fallback buffer loop
ReadFallback(k) ==
    /\ UNCHANGED svars
    /\ cpc = "rd_fallback"
    /\ CanRead(READ_SIZE, k)
    /\ IF k = 0 THEN AfterRead(k, Returns(loc, Take(loc.body, loc.idx)))
       ELSE IF loc.idx + k > fallback.size
            THEN AfterRead(k, Raises("Body too large", loc))
       ELSE AfterRead(k, Await("rd_fallback", [loc EXCEPT
                !.body = SliceAssign(@, loc.idx, loc.idx + k, Chunk(k)),
                !.idx = @ + k]))

\* `chunk = await reader.read(READ_SIZE)` of the dynamic loop
ReadDynamic(k) ==
    /\ UNCHANGED svars
    /\ cpc = "rd_dynamic"
    /\ CanRead(READ_SIZE, k)
    /\ IF k = 0
       THEN AfterRead(k, [next |-> "return", err |-> "",
                      loc |-> [loc EXCEPT !.body = loc.body_parts]])
       ELSE IF ~Decodable(Chunk(k)) THEN AfterRead(k, Raises("UnicodeError", loc))
       ELSE AfterRead(k, Await("rd_dynamic",
                           [loc EXCEPT !.body_parts = @ \o Decode(Chunk(k))]))

\* The next value `for i in range(retries)` gives i
RangeNextSkips(k) == k + 2

RangeNext(k) == k + 1

\* `await asyncio.sleep_ms(1000)` returns and the except clause ends (e is
\* unbound again): the next iteration starts, or range(retries) is exhausted
\* and the function returns None
Sleep ==
    /\ UNCHANGED svars
    /\ cpc = "sleep"
    /\ sleeps' = Append(sleeps, BACKOFF_MS)
    /\ i' = RangeNext(i)
    /\ lastErr' = ""
    /\ IF RangeNext(i) < retries
       THEN /\ attempts' = attempts + 1
            /\ cpc' = "connect"
            /\ UNCHANGED result
       ELSE /\ cpc' = "done"
            /\ result' = [kind |-> "none", status_code |-> 0, body |-> <<>>]
            /\ UNCHANGED attempts
    /\ UNCHANGED <<retries, fallback, resp, stream, writer, openTransports, pos, loc>>

\* bytes of the stream not yet delivered
Avail == Len(stream) - pos

\* Sizes in which the transport delivers the stream: any size for a short
\* stream; a stream longer than MAX_HEADER arrives in full or nearly full
\* header reads (or all that is left)
Segments ==
    IF Len(stream) > MAX_HEADER
    THEN {0, HEADER_READ - 1, HEADER_READ, Avail}
    ELSE 0..Avail

CNext ==
    \/ CStart
    \/ Connect
    \/ ConnectFails
    \/ Drain
    \/ TransportError
    \/ AttemptTimeout
    \/ \E k \in Segments : ReadHeader(k)
    \/ \E k \in Segments : ReadChunkLine(k)
    \/ \E k \in Segments : ReadChunkData(k)
    \/ \E k \in Segments : ReadFixed(k)
    \/ \E k \in Segments : ReadFallback(k)
    \/ \E k \in Segments : ReadDynamic(k)
    \/ Sleep

\* No client call in progress
CIdle ==
    /\ retries = 0
    /\ fallback = NoFallback
    /\ resp = Resp("canon", FALSE, <<>>, FALSE, <<>>, <<>>, NoSplit)
    /\ stream = <<>>
    /\ i = 0
    /\ cpc = "idle"
    /\ attempts = 0
    /\ sleeps = <<>>
    /\ writer = FALSE
    /\ openTransports = 0
    /\ pos = 0
    /\ loc = LocInit
    /\ lastErr = ""
    /\ result = Pending

\* the application the server is constructed with is one of A
AppIn(A) == app \in A

\* The server handling NumConns connections of a simple application
InitServer == SInit /\ AppIn({SimpleApp}) /\ CIdle

SpecServer == InitServer /\ [][SNext]_vars

\* The server handling one connection, for every application
InitRequest == SInit /\ AppIn(Apps) /\ CIdle

SpecRequest == InitRequest /\ [][RNext]_vars

InitParse == SInit /\ AppIn(ParseApps) /\ CIdle

SpecParse == InitParse /\ [][PNext]_vars

\* The same runs under fair scheduling: the event loop runs every task that
\* is ready, so a connection whose next step is possible takes it
SpecLive == InitParse /\ [][PNext]_vars /\ WF_vars(PNext)

\* One call of http_client against the peer
InitClient == SInit /\ AppIn({SimpleApp}) /\ CInit

SpecClient == InitClient /\ [][CNext]_vars

\* The call under fair scheduling: the event loop runs the task when it is
\* ready (the loop starts, the backoff sleep ends) and the timer of
\* wait_for_ms expires while the attempt is still running, also when the
\* attempt's reads return at once. Nothing is assumed of the peer.
SpecClientLive ==
    /\ InitClient
    /\ [][CNext]_vars
    /\ WF_vars(CStart)
    /\ WF_vars(Sleep)
    /\ WF_vars(AttemptTimeout)

(***************************************************************************)
(*                              PROPERTIES                                 *)
(***************************************************************************)

\* C1: in every reachable state of the server, under every interleaving of
\* the connections, _connections holds at most max_connections identifiers.
C1_AdmissionBounded ==
    Cardinality(connections) <= max_connections

\* C1 witness: the set is at the cap while another connection, found over
\* the cap, is being rejected.
C1_Witness ==
    /\ Cardinality(connections) = max_connections
    /\ \E c \in Conns : spc[c] = "rej_write"

\* C2: a connection whose admission check found max_connections admitted
\* connections has, when handle returns, received 503, had its transport
\* closed, and was never read from.
C2_RejectedGets503AndClose ==
    \A c \in Conns :
        (sawFull[c] /\ spc[c] = "done") =>
            /\ written[c] = <<RejectStatus>>
            /\ closed[c]
            /\ ~didRead[c]

\* C3: http_client never raises: when all `retries` (>= 1) attempts failed it
\* has returned a Response with status 500 whose body is the message of the
\* last attempt's error.
C3_SyntheticResponse ==
    (cpc = "done" /\ retries >= 1 /\ result.kind # "response") =>
        /\ result.kind = "synthetic"
        /\ result.status_code = SYNTHETIC_STATUS
        /\ result.body = ErrText(lastErr)
        /\ lastErr \in {"OSError", "Timeout", "ValueError", "UnicodeError",
                        "Header too large", "Body too large"}

\* C3 witness: two attempts failed, the last one by a protocol error of the
\* body, and the call has returned.
C3_Witness ==
    /\ cpc = "done"
    /\ attempts = 2
    /\ result.kind = "synthetic"
    /\ lastErr = "Body too large"

\* C4: with retries = R >= 1 and every attempt failing, exactly R attempts
\* are made, with one backoff sleep between consecutive attempts (R - 1
\* sleeps, none after the last failure), and status 500 is returned; a
\* timed-out attempt counts as one failed attempt.
C4_AttemptsAndSleeps ==
    /\ (cpc = "done" /\ retries >= 1 /\ result.kind # "response") =>
          /\ attempts = retries
          /\ sleeps = [j \in 1..(retries - 1) |-> BACKOFF_MS]
          /\ result.status_code = SYNTHETIC_STATUS
    /\ (cpc \in InAttempt) => (Len(sleeps) = attempts - 1 /\ attempts = i + 1)
    /\ (cpc = "sleep") => (Len(sleeps) = attempts - 1 /\ attempts < retries)

\* C4 witness: retries = 2, both attempts failed, the last by the timeout,
\* one sleep in between.
C4_Witness ==
    /\ cpc = "done"
    /\ retries = 2
    /\ attempts = 2
    /\ sleeps = <<BACKOFF_MS>>
    /\ lastErr = "Timeout"
    /\ result.kind = "synthetic"

\* C5: the transport an attempt opened is closed before the attempt ends, on
\* every exit path: no transport is open when the next attempt starts, during
\* the backoff, or when http_client has returned; at most one is open at any
\* time.
C5_TransportClosed ==
    /\ openTransports \in {0, 1}
    /\ (cpc \in {"start", "connect", "sleep", "done"}) => openTransports = 0
    /\ (cpc \in InAttempt \ {"connect"}) => (writer /\ openTransports = 1)

\* C5 witness: an attempt that had opened its transport was cancelled by the
\* timeout, and the next attempt is starting.
C5_Witness ==
    /\ cpc = "sleep"
    /\ lastErr = "Timeout"
    /\ openTransports = 0
    /\ attempts = 1

\* The strategy the stated priority gives: chunked if Transfer-Encoding
\* contains "chunked", else content-length if the header is present, else
\* bounded fallback if the caller supplied a size, else dynamic.
PriorityStrategy ==
    IF resp.hasTE /\ Contains(resp.te, ChunkedText) THEN "chunked"
    ELSE IF resp.hasCL THEN "content-length"
    ELSE IF fallback.given THEN "fallback"
    ELSE "dynamic"

\* C6: for every combination of response headers and fallback_buffer_size
\* the body strategy taken is the one the strict priority gives.
C6_StrictPriority ==
    loc.hasHeaders => loc.strategy = PriorityStrategy

\* The attempt on the stream ended by itself (a return or a raise of the
\* parsing code), not by a transport error or a timeout.
EndedByParser ==
    /\ cpc = "done"
    /\ retries = 1
    /\ lastErr \notin {"OSError", "Timeout"}

IsChunkedResp == resp.hasTE /\ Contains(resp.te, ChunkedText)

\* C7 as stated: for every payload (any bytes) and split, the chunked
\* decoder returns exactly the payload.
C7_AnyBytesRoundTrip ==
    (EndedByParser /\ IsChunkedResp) =>
        (result.kind = "response" /\ result.body = resp.payload)

\* C7 amended: for every payload that is valid UTF-8, every split into
\* chunks and every partition of the stream into reads, the chunked decoder
\* returns exactly the payload (as text); a payload that is not valid UTF-8
\* makes the attempt fail in body.decode().
C7_ChunkedRoundTrip ==
    (EndedByParser /\ IsChunkedResp) =>
        IF Decodable(resp.payload)
        THEN result.kind = "response" /\ result.body = Decode(resp.payload)
        ELSE result.kind = "synthetic" /\ lastErr = "UnicodeError"

\* C7 witness: a payload holding CR LF, sent as two chunks, was returned.
C7_Witness ==
    /\ cpc = "done"
    /\ IsChunkedResp
    /\ ~resp.hasCL
    /\ resp.payload = CRLF
    /\ resp.split = <<1, 1>>
    /\ result.kind = "response"
    /\ result.body = CRLF

\* a Content-Length response whose announced length is its payload's length
IsFixedResp ==
    /\ ~IsChunkedResp
    /\ resp.hasCL
    /\ ParseInt(resp.cl) = Len(resp.payload)

\* C8 as stated: Content-Length: N with its N bytes (any bytes) delivered in
\* any partition returns exactly those N bytes.
C8_AnyBytesFixed ==
    (EndedByParser /\ IsFixedResp) =>
        (result.kind = "response" /\ result.body = resp.payload)

\* C8 amended: Content-Length: N with N bytes of valid UTF-8 delivered in any
\* partition into reads returns exactly those N bytes (as text), in order; a
\* body that is not valid UTF-8 makes the attempt fail in body.decode().
C8_FixedLengthBody ==
    (EndedByParser /\ IsFixedResp) =>
        IF Decodable(resp.payload)
        THEN result.kind = "response" /\ result.body = Decode(resp.payload)
        ELSE result.kind = "synthetic" /\ lastErr = "UnicodeError"

\* C8 witness: a two-byte body under Content-Length: 2 was returned.
C8_Witness ==
    /\ cpc = "done"
    /\ IsFixedResp
    /\ Len(resp.payload) = 2
    /\ result.kind = "response"
    /\ result.body = resp.payload

\* C9: with neither framing header and fallback_buffer_size = B supplied, a
\* body of more than B bytes never yields a Response from the attempt, and
\* an attempt that the parser ended failed with the body-too-large error.
C9_BodyTooLarge ==
    (/\ cpc = "done"
     /\ retries = 1
     /\ ~resp.hasTE
     /\ ~resp.hasCL
     /\ fallback.given
     /\ Len(resp.payload) > fallback.size) =>
        /\ result.kind # "response"
        /\ lastErr \in {"Body too large", "OSError", "Timeout"}

\* The strategy and body a response determines whatever the letter case of
\* its header names
CaseFreeStrategy ==
    IF IsChunkedResp THEN "chunked"
    ELSE IF resp.hasCL /\ resp.cl # <<>> THEN "content-length"
    ELSE IF fallback.given /\ fallback.size # 0 THEN "fallback"
    ELSE "dynamic"

\* C10: whatever the letter case of the names Transfer-Encoding and
\* Content-Length, the same response selects the same strategy and yields
\* the same body.
C10_CaseInsensitive ==
    /\ loc.hasHeaders => loc.strategy = CaseFreeStrategy
    /\ (result.kind = "response" /\ resp \in FramingResps) =>
          result.body = Decode(resp.payload)

\* C10 witness: upper-case header names selected the chunked strategy and
\* the body was returned.
C10_Witness ==
    /\ resp.style = "upper"
    /\ resp.hasTE
    /\ resp.hasCL
    /\ loc.strategy = "chunked"
    /\ result.kind = "response"

\* the header delimiter is not complete within the first MAX_HEADER bytes of
\* a stream that is longer than MAX_HEADER
DelimiterBeyondLimit ==
    /\ Len(stream) > MAX_HEADER
    /\ ~Contains(Take(stream, MAX_HEADER), CRLFCRLF)

\* C11: the header buffer kept between reads never exceeds MAX_HEADER bytes
\* (so it never exceeds MAX_HEADER plus one read of HEADER_READ bytes), and
\* when more than MAX_HEADER bytes accumulate before the delimiter is found
\* the attempt fails with "Header too large".
C11_HeaderBounded ==
    /\ Len(loc.header_bytes) <= MAX_HEADER
    /\ (cpc = "rd_header") => (pos = Len(loc.header_bytes))
    /\ (EndedByParser /\ DelimiterBeyondLimit) =>
          /\ result.kind = "synthetic"
          /\ lastErr = "Header too large"

\* C11 witness: a response whose delimiter lies beyond MAX_HEADER bytes was
\* aborted with "Header too large".
C11_Witness ==
    /\ cpc = "done"
    /\ DelimiterBeyondLimit
    /\ lastErr = "Header too large"
    /\ result.kind = "synthetic"

\* ---- the server's handling of one connection ----
KindsOf(evs) == {evs[j].kind : j \in 1..Len(evs)}

IsHeaders(e) == e.kind = "headers"

IsBody(e) == e.kind = "body"

IsWrite(e) == e.kind \in {"headers", "body"}

IsTeardown(e) == e.kind \in {"after", "close", "release"}

IsErrorPath(e) == e.kind \in {"error", "headers", "body"}

\* handle has returned for c
Returned(c) == spc[c] = "done"

\* the request of c was parsed and dispatched, and handle has returned
Dispatched(c) == Returned(c) /\ fault[c] # ""

\* the route entry the request of c selects
RouteOf(c) == Lookup(app.routes, url[c])

\* the request of c is one a registered handler is called for
Routed(c) ==
    /\ method[c] # OPTIONS
    /\ RouteOf(c)[1]
    /\ method[c] \in RouteOf(c)[2].methods

\* C12: an admitted connection whose request line splits into a number of
\* tokens other than 3 (the empty line at end of stream included) gets no
\* response byte, no before-hook, handler or static responder call, and is
\* closed.
C12_BadRequestLine ==
    [][\A c \in Conns, line \in RequestLines :
          (/\ ReadRequestLine(c, line)
           /\ Decodable(line)
           /\ Len(SplitWS(Decode(line))) # 3) =>
              /\ spc'[c] \in {"done", "wait_release"}
              /\ closed'[c]
              /\ written'[c] = <<>>
              /\ KindsOf(events'[c]) \subseteq {"after", "close", "release"}]_vars

\* C12 witness: a request line was read and did not give a method; handle
\* returned with the connection closed and nothing written or printed.
C12_Witness ==
    \E c \in Conns :
        /\ Returned(c)
        /\ didRead[c]
        /\ method[c] = <<>>
        /\ closed[c]
        /\ written[c] = <<>>
        /\ KindsOf(events[c]) = {"after", "close", "release"}

\* C13: a parsed request with method OPTIONS, whatever its path and the
\* routes registered, never has a route handler or the static responder
\* called, and (the transport taking the writes) receives exactly the 204
\* header block with the CORS headers.
C13_OptionsShortCircuit ==
    \A c \in Conns :
        (Dispatched(c) /\ method[c] = OPTIONS) =>
            /\ KindsOf(events[c]) \cap {"handler", "static"} = {}
            /\ (fault[c] \notin TransportFaults) =>
                  /\ SelectSeq(events[c], IsWrite)
                       = <<HeaderBlock(OptionsStatus, "text/html", FALSE)>>
                  /\ \A j \in 1..Len(events[c]) :
                         IsHeaders(events[c][j]) => events[c][j].cors

\* C13 witness: OPTIONS on a path whose route lists OPTIONS got the 204.
C13_Witness ==
    \E c \in Conns :
        /\ Dispatched(c)
        /\ method[c] = OPTIONS
        /\ url[c] = StatusUrl
        /\ StatusUrl \in DOMAIN app.routes
        /\ OPTIONS \in app.routes[StatusUrl].methods
        /\ written[c] = <<OptionsStatus>>

\* what the server writes for a handler result when nothing fails
ExpectedForResult(res) ==
    CASE res \in {"dict", "list"} ->
             <<HeaderBlock(RouteStatus, "application/json", FALSE),
               BodyEv(<<"json.dumps", res>>)>>
      [] res = "str" ->
             <<HeaderBlock(RouteStatus, "text/plain", FALSE), BodyEv(<<res>>)>>
      [] OTHER -> <<>>

\* C14: a matched handler returning a mapping or sequence gets 200,
\* application/json and the JSON encoding as body; returning text, 200,
\* text/plain and the text; returning nothing, no byte written by the
\* server.
C14_HandlerResult ==
    \A c \in Conns :
        (/\ Dispatched(c)
         /\ fault[c] = "none"
         /\ Routed(c)
         /\ RouteOf(c)[2].result \in {"dict", "list", "str", "none"}) =>
            /\ "handler" \in KindsOf(events[c])
            /\ SelectSeq(events[c], IsWrite) = ExpectedForResult(RouteOf(c)[2].result)

\* C14 witness: a handler returned a sequence and the JSON response was
\* written.
C14_Witness ==
    \E c \in Conns :
        /\ Dispatched(c)
        /\ Routed(c)
        /\ RouteOf(c)[2].result = "list"
        /\ written[c] = <<RouteStatus>>
        /\ BodyEv(<<"json.dumps", "list">>) \in {events[c][j] : j \in 1..Len(events[c])}

\* C15: with index.html in the static root and no matching route, GET / is
\* answered with 200, text/html, the one-year cache header and the contents
\* of index.html.
C15_RootServesIndex ==
    \A c \in Conns :
        (/\ Dispatched(c)
         /\ fault[c] = "none"
         /\ method[c] = GET
         /\ url[c] = RootUrl
         /\ ~Routed(c)
         /\ IndexFile \in app.files) =>
            SelectSeq(events[c], IsWrite)
              = <<HeaderBlock(RouteStatus, "text/html", TRUE),
                  BodyEv(FileBody(IndexFile))>>

\* kinds of the events of a sequence, in order
KindSeq(evs) == [j \in 1..Len(evs) |-> evs[j].kind]

\* C16: on every exit path of a connection, the 503 rejection included,
\* teardown is: all after-hooks, then the close of the transport, then the
\* release of the admission slot (for a connection that held one).
C16_TeardownOrder ==
    \A c \in Conns :
        Returned(c) =>
            KindSeq(SelectSeq(events[c], IsTeardown))
              = [j \in 1..app.hooks |-> "after"] \o <<"close">>
                  \o (IF sawFull[c] THEN <<>> ELSE <<"release">>)

\* C17: after-hooks run on every exit path of an admitted connection and
\* each receives the status of the response written last on it.
C17_AfterHookStatus ==
    \A c \in Conns :
        (Returned(c) /\ ~sawFull[c]) =>
            /\ Len(SelectSeq(events[c], LAMBDA e : e.kind = "after")) = app.hooks
            /\ \A j \in 1..Len(events[c]) :
                   (events[c][j].kind = "after" /\ written[c] # <<>>) =>
                       events[c][j].code = written[c][Len(written[c])]

\* the server itself answers the request of c: OPTIONS, the static
\* responder, or a handler whose result or exception the server turns into
\* a response
ServerAnswers(c) ==
    \/ method[c] = OPTIONS
    \/ ~Routed(c)
    \/ RouteOf(c)[2].result \in {"dict", "list", "str", "HttpError", "Exception"}

\* C18: for a parsed and dispatched request the server writes exactly one
\* response (one header block), also when something fails after the header
\* block was written.
C18_ExactlyOneResponse ==
    \A c \in Conns :
        Dispatched(c) =>
            /\ Len(written[c]) <= 1
            /\ (ServerAnswers(c) /\ fault[c] \notin TransportFaults) => Len(written[c]) = 1

\* C19: every header block the server writes, the 503 rejection included,
\* carries a caching directive (max-age for static content, no-cache
\* otherwise) and the CORS headers.
C19_CacheAndCors ==
    \A c \in Conns : \A j \in 1..Len(events[c]) :
        IsHeaders(events[c][j]) =>
            /\ events[c][j].cache \in {MaxAge, NoCache}
            /\ events[c][j].cors

\* C20: when a handler or the static responder raises HttpError(request,
\* status, message), every error hook is called with status and message and
\* then the response with that status and the body <h1>message</h1> is
\* written; for any other non-transport exception every error hook is
\* called with 500 and the 500 response is written.
C20_ErrorHandling ==
    \A c \in Conns :
        /\ (/\ Dispatched(c) /\ fault[c] = "none" /\ Routed(c)
            /\ RouteOf(c)[2].result = "HttpError") =>
              SelectSeq(events[c], IsErrorPath)
                = [j \in 1..app.hooks |->
                       HookCall(app, "error", j, HandlerError.code,
                                <<HandlerError.msg>>)]
                  \o <<HeaderBlock(HandlerError.code, "text/html", FALSE),
                       BodyEv(Template(HandlerError.msg))>>
        /\ (/\ Dispatched(c) /\ fault[c] = "none" /\ Routed(c)
            /\ RouteOf(c)[2].result = "Exception") =>
              SelectSeq(events[c], IsErrorPath)
                = [j \in 1..app.hooks |->
                       HookCall(app, "error", j, ErrorStatus,
                                <<"handler failed">>)]
                  \o <<HeaderBlock(ErrorStatus, "text/html", FALSE),
                       BodyEv(ServerErrorBody)>>
        /\ (/\ Dispatched(c) /\ fault[c] = "vanish" /\ ~Routed(c)
            /\ method[c] # OPTIONS /\ StaticPath(url[c]) \in app.files) =>
              LET evs == SelectSeq(events[c], IsErrorPath)
              IN SubSeq(evs, 2, Len(evs))
                   = [j \in 1..app.hooks |->
                          HookCall(app, "error", j, NotFoundStatus,
                                   <<"File Not Found">>)]
                     \o <<HeaderBlock(NotFoundStatus, "text/html", FALSE),
                          BodyEv(Template("File Not Found"))>>

\* C20 witness: a handler raised the typed error with an error hook
\* registered; the hook was called and the templated response written.
C20_Witness ==
    \E c \in Conns :
        /\ Dispatched(c)
        /\ Routed(c)
        /\ RouteOf(c)[2].result = "HttpError"
        /\ app.hooks >= 1
        /\ "error" \in KindsOf(events[c])
        /\ written[c] = <<HandlerError.code>>

\* the status line of the response is malformed: the peer sent nothing, the
\* line has fewer than two tokens, or its second token is not a number
MalformedStatusLine ==
    \/ resp.silent
    \/ Len(SplitWS(resp.statusLine)) < 2
    \/ \E j \in 1..Len(SplitWS(resp.statusLine)[2]) :
           SplitWS(resp.statusLine)[2][j] \notin {Digits[d] : d \in 1..10}

\* C29: when the status line of a response is malformed (fewer than two
\* tokens, a code that is no number, or nothing received at all) the status
\* the client parsed, and returns, is 500.
C29_MalformedStatus ==
    /\ (loc.hasHeaders /\ MalformedStatusLine) => loc.status = MALFORMED_STATUS
    /\ (cpc = "done" /\ result.kind = "response" /\ MalformedStatusLine) =>
          result.status_code = MALFORMED_STATUS
    /\ (cpc = "done" /\ result.kind = "response" /\ ~MalformedStatusLine) =>
          result.status_code = DecValue(SplitWS(resp.statusLine)[2])

\* C29 witness: the peer closed before sending anything and the client
\* returned a response with status 500 and an empty body.
C29_Witness ==
    /\ cpc = "done"
    /\ resp.silent
    /\ stream = <<>>
    /\ result.kind = "response"
    /\ result.status_code = MALFORMED_STATUS
    /\ result.body = <<>>

\* the peer announced more bytes than it sent before closing
IsTruncatedResp ==
    /\ ~IsChunkedResp
    /\ ~resp.silent
    /\ resp.hasCL
    /\ ParseInt(resp.cl) > Len(resp.payload)

\* C30: under the content-length strategy a stream that ends before
\* Content-Length bytes were delivered is not an error: the attempt returns
\* a Response, without retry, that carries the bytes received.
C30_TruncatedBodyAccepted ==
    (EndedByParser /\ IsTruncatedResp /\ Decodable(resp.payload)) =>
        /\ result.kind = "response"
        /\ attempts = 1
        /\ result.body = Decode(resp.payload)

\* ---- transport errors, route lookup and hooks ----
\* a write on the transport was attempted (delivered, raised or lost)
IsWriteAttempt(e) == e.kind \in {"headers", "body", "wfail", "wlost"}

\* a read timed out or failed, or a write met a transport error
IsTransportError(e) == e.kind \in {"rfail", "wfail", "wlost"}

\* nothing is written, attempted or reported to an error hook after event j
QuietAfter(evs, j) ==
    \A k \in (j + 1)..Len(evs) :
        ~IsWriteAttempt(evs[k]) /\ evs[k].kind # "error"

\* C21: once a read timeout or a transport error occurred on an admitted
\* connection, the server attempts no further response write on it and
\* calls no error hook, and the connection is torn down.
C21_TransportErrorSilent ==
    \A c \in Conns :
        /\ \A j \in 1..Len(events[c]) :
               IsTransportError(events[c][j]) => QuietAfter(events[c], j)
        /\ (Returned(c) /\ ~sawFull[c]) => (closed[c] /\ c \notin connections)

\* the keys of the routes whose handler was called for c
HandlersCalled(c) ==
    {events[c][j].text : j \in {k \in 1..Len(events[c]) :
                                    events[c][k].kind = "handler"}}

StaticCalled(c) == "static" \in KindsOf(events[c])

\* the route a path selects: the exact entry, else the wildcard entry
SelectedKey(routes, u) ==
    IF u \in DOMAIN routes THEN u
    ELSE IF Star \in DOMAIN routes THEN Star
    ELSE <<>>

\* C22 as stated: a request whose path equals a registered path goes to
\* that route's handler, else to the wildcard handler when one is
\* registered, else to the static responder.
C22_RouteLookupByPath ==
    \A c \in Conns :
        (Dispatched(c) /\ method[c] # OPTIONS) =>
            LET key == SelectedKey(app.routes, url[c])
            IN IF key = <<>>
               THEN StaticCalled(c) /\ HandlersCalled(c) = {}
               ELSE ~StaticCalled(c) /\ HandlersCalled(c) = {key}

\* C22 amended: the path selects the exact route, else the wildcard route
\* (an exact entry always shadows the wildcard); the selected route's
\* handler is called when the request method is among the route's methods;
\* when no route is selected or the method is not among them, the static
\* responder is called and no handler.
C22_RouteLookup ==
    \A c \in Conns :
        (Dispatched(c) /\ method[c] # OPTIONS) =>
            LET key == SelectedKey(app.routes, url[c])
            IN IF key # <<>> /\ method[c] \in app.routes[key].methods
               THEN ~StaticCalled(c) /\ HandlersCalled(c) = {key}
               ELSE StaticCalled(c) /\ HandlersCalled(c) = {}

\* C22 witness: with an exact route and the wildcard both registered and
\* both allowing GET, GET on the exact path called the exact route's
\* handler, whose text was written.
C22_Witness ==
    \E c \in Conns :
        /\ Dispatched(c)
        /\ method[c] = GET
        /\ url[c] = StatusUrl
        /\ DOMAIN app.routes = {StatusUrl, Star}
        /\ GET \in app.routes[Star].methods
        /\ HandlersCalled(c) = {StatusUrl}
        /\ SelectSeq(events[c], IsWrite) = ExpectedForResult("str")

\* the hook numbers of the calls of one kind among events, in order
HookNumbers(evs, kind) ==
    LET calls == SelectSeq(evs, LAMBDA e : e.kind = kind)
    IN [j \in 1..Len(calls) |-> calls[j].hook]

InOrder(n) == [j \in 1..n |-> j]

\* C23: for every request parsed successfully (OPTIONS and static requests
\* included) all before-hooks run, in registration order, once the headers
\* and body were read and before any handler, static responder or write;
\* a before-hook that raises does not abort the request.
C23_BeforeHooksFirst ==
    \A c \in Conns :
        /\ ("before" \in KindsOf(events[c])) => fault[c] # ""
        /\ Dispatched(c) =>
              /\ HookNumbers(events[c], "before") = InOrder(app.hooks)
              /\ \A j \in 1..app.hooks : events[c][j].kind = "before"
              /\ IF method[c] = OPTIONS
                 THEN (fault[c] \notin TransportFaults) =>
                          written[c] = <<OptionsStatus>>
                 ELSE StaticCalled(c) \/ HandlersCalled(c) # {}

\* C23 witness: two before-hooks, the first raising; both ran, then the
\* handler, and its response was written.
C23_Witness ==
    \E c \in Conns :
        /\ Dispatched(c)
        /\ app.hooks = 2
        /\ "before" \in app.raising
        /\ events[c][1].kind = "before" /\ events[c][1].raised
        /\ events[c][2].kind = "before" /\ ~events[c][2].raised
        /\ events[c][3].kind = "handler"
        /\ written[c] = <<RouteStatus>>

\* what is put on the wire for the request of c when no hook raises
WritesWithoutRaise(c) ==
    LET a == Raising(app, {})
    IN SelectSeq(ExceptClauses(TryBlock(method[c], url[c], a, fault[c]),
                               a, fault[c]).events,
                 IsWriteAttempt)

\* C24: a hook that raises is swallowed: the other hooks of its list still
\* run (each list runs whole or, the error hooks, not at all), the bytes
\* written are those written when no hook raises, and teardown completes.
C24_HookFailureSwallowed ==
    \A c \in Conns :
        (Returned(c) /\ ~sawFull[c]) =>
            /\ HookNumbers(events[c], "after") = InOrder(app.hooks)
            /\ HookNumbers(events[c], "error") \in {<<>>, InOrder(app.hooks)}
            /\ HookNumbers(events[c], "before") \in {<<>>, InOrder(app.hooks)}
            /\ Dispatched(c) =>
                  SelectSeq(events[c], IsWriteAttempt) = WritesWithoutRaise(c)
            /\ closed[c]
            /\ c \notin connections

\* C24 witness: the first hook of every list raises; a handler raised the
\* typed error; both error hooks and both after-hooks were called and the
\* error response was written.
C24_Witness ==
    \E c \in Conns :
        /\ Dispatched(c)
        /\ app.hooks = 2
        /\ app.raising = HookKinds
        /\ HookNumbers(events[c], "error") = <<1, 2>>
        /\ HookNumbers(events[c], "after") = <<1, 2>>
        /\ \E j \in 1..Len(events[c]) :
               events[c][j].kind = "error" /\ events[c][j].raised
        /\ written[c] = <<HandlerError.code>>
        /\ closed[c]

\* ---- the parsing of one request ----
\* the request of c is a POST whose headers are read
PostRead(c) ==
    method[c] = POST /\ (spc[c] \in {"body", "dispatch"} \/ Dispatched(c))

\* C25: for a POST with Content-Length: N the server reads exactly N body
\* bytes, over partial reads of any sizes, before the before-hooks run; a
\* body that is not valid JSON still has the request dispatched to its
\* handler, with request.json None, and no error response.
C25_PostBody ==
    \A c \in Conns :
        /\ Len(request[c].body) <= request[c].length
        /\ (PostRead(c) /\ CLName \in DOMAIN request[c].headers) =>
              request[c].length = ParseInt(request[c].headers[CLName])
        /\ (method[c] = POST /\ (spc[c] = "dispatch" \/ Dispatched(c))) =>
              /\ Len(request[c].body) = request[c].length
              /\ (JsonLoads(request[c].body) = Invalid) =>
                     request[c].json = None
              /\ (JsonLoads(request[c].body) # Invalid
                    /\ request[c].body # <<>>) =>
                     request[c].json = JsonLoads(request[c].body)
        /\ (method[c] = POST /\ Dispatched(c) /\ Routed(c)
              /\ RouteOf(c)[2].result = "str") =>
              /\ HandlersCalled(c) = {url[c]}
              /\ written[c] = <<RouteStatus>>
        /\ (Returned(c) /\ request[c].reads > 0 /\ ~Dispatched(c)) =>
              "rfail" \in KindsOf(events[c])

\* C25 witness: Content-Length: 2, the body arrived in two reads and is
\* not valid JSON; the handler was called with request.json None and its
\* response written.
C25_Witness ==
    \E c \in Conns :
        /\ Dispatched(c)
        /\ method[c] = POST
        /\ CLName \in DOMAIN request[c].headers
        /\ request[c].headers[CLName] = DecText(2)
        /\ request[c].reads = 2
        /\ request[c].body = <<"{", "x">>
        /\ request[c].json = None
        /\ HandlersCalled(c) = {StatusUrl}
        /\ written[c] = <<RouteStatus>>

\* the header keys that spell Content-Length in any letter case
LengthKeys(h) == {k \in DOMAIN h : Lower(k) = CLKey}

\* C26: header keys are matched case-insensitively: a POST whose length
\* header is spelled content-length or CONTENT-LENGTH has its body read
\* and parsed as when it is spelled Content-Length.
C26_LengthHeaderAnyCase ==
    \A c \in Conns :
        (/\ method[c] = POST
         /\ spc[c] = "dispatch" \/ Dispatched(c)
         /\ Cardinality(LengthKeys(request[c].headers)) = 1) =>
            LET k == CHOOSE x \in LengthKeys(request[c].headers) : TRUE
            IN /\ Len(request[c].body) = ParseInt(request[c].headers[k])
               /\ request[c].json = ParsedBody(request[c].body)

\* C27: an error met while the request is parsed (a Content-Length that is
\* no number, bytes of the request line or of a header line that do not
\* decode, a transport error) ends the connection with no response byte.
C27_ParseErrorSilent ==
    \A c \in Conns :
        (Returned(c) /\ ~sawFull[c] /\ ~Dispatched(c)) =>
            /\ written[c] = <<>>
            /\ ~\E j \in 1..Len(events[c]) : IsWriteAttempt(events[c][j])
            /\ closed[c]

\* bytes of the stored header map: keys and values
RECURSIVE StoredBytes(_)
StoredBytes(h) ==
    IF DOMAIN h = {} THEN 0
    ELSE LET k == CHOOSE x \in DOMAIN h : TRUE
         IN Len(k) + Len(h[k]) + StoredBytes([x \in DOMAIN h \ {k} |-> h[x]])

\* C28: the header data the server reads and stores for one request never
\* exceeds the fixed maximum of MAX_HEADER bytes.
C28_RequestHeaderBounded ==
    \A c \in Conns :
        /\ request[c].hbytes <= MAX_HEADER
        /\ StoredBytes(request[c].headers) <= MAX_HEADER

\* ---- progress of a connection ----
\* no call of handle is in flight
NoneInFlight == \A c \in Conns : spc[c] \in {"idle", "done"}

\* C31: under fair scheduling every admitted connection reaches teardown and
\* its identifier leaves the admission set, whatever its reads return (data,
\* end of stream, a timeout), also for a POST whose peer closes the stream
\* before the body bytes were sent; and with no connection in flight the
\* admission set is empty.
C31_NoSlotLeak ==
    /\ \A c \in Conns : (c \in connections) ~> (c \notin connections)
    /\ [](NoneInFlight => connections = {})

\* d is suspended in _lock.acquire(): at its admission check or at the
\* release of its slot
WaitsForLock(d) == spc[d] \in {"wait_admit", "wait_release"}

\* C32: while the 503 write to a rejected connection is pending, no other
\* connection is held up: none waits to be admitted or rejected, and none
\* that is finishing waits to release its slot.
C32_RejectDoesNotBlock ==
    \A c \in Conns :
        spc[c] = "rej_write" => \A d \in Conns \ {c} : ~WaitsForLock(d)

\* ---- the static root ----
\* path names a file under the static root
UnderStaticDir(path) ==
    Take(Resolve(path), Len(STATIC_DIR) + 1) = STATIC_DIR \o <<"/">>

\* the paths of the files sent on c
FilesSent(c) ==
    {Tail(events[c][j].text) :
        j \in {k \in 1..Len(events[c]) :
                  /\ events[c][k].kind = "body"
                  /\ events[c][k].text # <<>>
                  /\ Head(events[c][k].text) = Head(FileBody(<<>>))}}

\* C33: the static responder never opens or serves a file outside the static
\* root: for every request path, also one with `..` segments, the path it
\* resolves is under STATIC_DIR.
C33_StaysUnderStaticDir ==
    \A c \in Conns :
        /\ (Dispatched(c) /\ StaticCalled(c)) =>
               UnderStaticDir(StaticPath(url[c]))
        /\ \A path \in FilesSent(c) : UnderStaticDir(path)

\* ---- the allowed methods of a route ----
\* C34: a route handler is called only for a request whose method is among
\* that route's methods; when the route registered for exactly the request
\* path does not allow the method, the static responder answers and no
\* handler is called, the wildcard route's included, even if the wildcard
\* allows the method.
C34_MethodGatesHandler ==
    \A c \in Conns :
        /\ \A key \in HandlersCalled(c) :
               /\ key \in DOMAIN app.routes
               /\ method[c] \in app.routes[key].methods
        /\ (/\ Dispatched(c)
            /\ method[c] # OPTIONS
            /\ url[c] \in DOMAIN app.routes
            /\ method[c] \notin app.routes[url[c]].methods) =>
               StaticCalled(c) /\ HandlersCalled(c) = {}

\* C34 witness: /status is registered for POST only and the wildcard for
\* GET; GET /status went to the static responder and no handler was called.
C34_Witness ==
    \E c \in Conns :
        /\ Dispatched(c)
        /\ method[c] = GET
        /\ url[c] = StatusUrl
        /\ DOMAIN app.routes = {StatusUrl, Star}
        /\ GET \notin app.routes[StatusUrl].methods
        /\ GET \in app.routes[Star].methods
        /\ StaticCalled(c)
        /\ HandlersCalled(c) = {}
        /\ written[c] = <<NotFoundStatus>>

\* ---- what http_client returns ----
\* result is an HttpResponse: one read from the peer or the synthetic one
IsResponse(r) == r.kind \in {"response", "synthetic"}

\* C35: http_client returns a Response for every value of retries, also for
\* retries = 0, where no attempt is made.
C35_AlwaysAResponse ==
    cpc = "done" => IsResponse(result)

\* ---- the header limit and the bytes after the delimiter ----
\* bytes of the header section of the stream, the delimiter included (0
\* when the stream holds no delimiter)
HeaderSectionLen ==
    IF Contains(stream, CRLFCRLF) THEN Find(stream, CRLFCRLF) + Len(CRLFCRLF) - 1
    ELSE 0

\* the header section, delimiter included, fits in MAX_HEADER bytes
HeaderFits == Contains(stream, CRLFCRLF) /\ HeaderSectionLen <= MAX_HEADER

\* C36: a response whose header section, delimiter included, is at most
\* MAX_HEADER bytes long is never rejected as "Header too large", whatever
\* body bytes arrive in the same read as the delimiter.
C36_FittingHeaderAccepted ==
    HeaderFits => lastErr # "Header too large"

\* ---- the length of a fixed-length body ----
\* the call returned a response read under the content-length strategy
FixedReturned ==
    /\ cpc = "done"
    /\ result.kind = "response"
    /\ loc.strategy = "content-length"

\* C37: under the content-length strategy with Content-Length: N the body
\* returned never holds more than N bytes, also when more than N bytes were
\* read past the delimiter together with the headers.
C37_BodyAtMostLength ==
    FixedReturned => Len(result.body) <= loc.content_length

\* ---- a chunked response that ends early ----
\* the peer sent a chunked response and closed before the size line of the
\* zero-size chunk was complete
CutBeforeLastChunk ==
    /\ IsChunkedResp
    /\ resp.cut > Len(CRLF)

\* C38: when a chunked response ends before the zero-size chunk, in a size
\* line or inside chunk data, the chunked reader does not loop for ever: the
\* attempt fails (at the latest when its timeout expires), no Response with
\* a partial chunked body is returned, and http_client returns after at
\* most `retries` attempts.
C38_CutChunkedTerminates ==
    /\ CutBeforeLastChunk ~> (cpc = "done")
    /\ [](CutBeforeLastChunk =>
            /\ result.kind # "response"
            /\ attempts <= retries
            /\ (cpc = "done" => result.kind = "synthetic" /\ attempts = retries))

\* C38 witness: the response ended inside the chunk's data; both attempts
\* were ended by the timeout and the synthetic response was returned.
C38_Witness ==
    /\ cpc = "done"
    /\ CutBeforeLastChunk
    /\ Len(stream) = Len(WholeWire(resp)) - Len(<<"a">> \o CRLF \o <<"0">> \o CRLFCRLF)
    /\ retries = 2
    /\ attempts = 2
    /\ sleeps = <<BACKOFF_MS>>
    /\ lastErr = "Timeout"
    /\ result.kind = "synthetic"

\* the chunked reader is asking for more data at the end of a stream that
\* ended early
AtEndInChunkedReader ==
    /\ CutBeforeLastChunk
    /\ cpc \in {"rd_line", "rd_data"}
    /\ pos = Len(stream)

\* ---- what makes the retry loop go on ----
\* the exceptions an attempt ends with: of the transport, of wait_for, of
\* the parsing code
Failures ==
    {"OSError", "Timeout", "ValueError", "UnicodeError", "Header too large",
     "Body too large"}

\* the status the status line of the response gives
StatusOnWire ==
    IF MalformedStatusLine THEN MALFORMED_STATUS
    ELSE DecValue(SplitWS(resp.statusLine)[2])

\* C39: only a failure (an exception, a timeout) leads to the backoff sleep
\* and to another attempt; the attempt that reads a complete response
\* returns it at once whatever its status (4xx, 5xx, the 500 put in place
\* of a malformed status line): no sleep follows and no further attempt.
C39_OnlyFailuresRetry ==
    /\ [](/\ (cpc = "sleep" \/ result.kind = "synthetic") => lastErr \in Failures
          /\ result.kind = "response" =>
                /\ cpc = "done"
                /\ result.status_code = StatusOnWire
                /\ attempts <= retries
                /\ Len(sleeps) = attempts - 1)
    /\ [][(result.kind # "response" /\ result'.kind = "response") =>
             /\ cpc \in InAttempt
             /\ cpc' = "done"
             /\ sleeps' = sleeps
             /\ attempts' = attempts]_vars

\* C39 witness: with retries to spare the first attempt read a 404 response
\* and it was returned: one attempt, no sleep.
C39_Witness ==
    /\ cpc = "done"
    /\ retries = MaxRetries
    /\ attempts = 1
    /\ sleeps = <<>>
    /\ result.kind = "response"
    /\ result.status_code = NotFoundStatus
    /\ result.body = OneA

====
